---- MODULE Spec2Model ----
(***************************************************************************)
(* The deposit service of zkwasm-mini-service (class Deposit, the first    *)
(* class of src/unnamed/part_002): the per-transaction state machine       *)
(* processTopUpEvent / performDeposit, the tracking store behind it, the   *)
(* historical sweep and the tail poll of serve().                          *)
(*                                                                         *)
(* One process runs the service.  Every await of the code is a suspension  *)
(* point: the process position (phase, pc) names the await the process is  *)
(* standing at, and one action is the code from one await to the next.     *)
(* The process may stop at any suspension point (Crash) and be started     *)
(* again (Restart); the store, the L1 chain and the L2 ledger survive.     *)
(***************************************************************************)
EXTENDS Integers, Sequences, FiniteSets, TLC

(***************************************************************************)
(* Bounds of the model.                                                    *)
(***************************************************************************)
MaxFaults == 3      \* injected failures (throwing calls, crashes) per behaviour
MaxRetry == 2       \* cap on a record's retryCount
SmallHeads == 2     \* the chain heads 0..SmallHeads, and one head a batch later
SweepSpan == 2      \* the sweeps studied alone span 0..SweepSpan batches
MaxTasks == 3       \* the L2 task bundles 1..MaxTasks
MaxReverts == 2     \* reverted L1 settlement submissions per behaviour
MaxInst == 13       \* instArr has 0..MaxInst entries

(***************************************************************************)
(* Program constants.                                                      *)
(***************************************************************************)
batchSize == 25000
totalBlocksToScan == 200000
maxBatchSize == 25000
PollRetries == 3

(***************************************************************************)
(* Amounts in wei are uint256 values; they are written here as three       *)
(* big-endian limbs in base 10^9, <<a, b, c>> = a*10^18 + b*10^9 + c.       *)
(***************************************************************************)
\* A variant of the conversion that rounds up instead of down.
AmountInEtherRoundedUp(wei) == IF wei[2] > 0 \/ wei[3] > 0 THEN wei[1] + 1 ELSE wei[1]

\* amount / BigInt(10 ** 18): the integer quotient by 10^18 = (10^9)^2 drops
\* the two low limbs (the amounts of the model are below 10^27).
AmountInEther(wei) == wei[1]

\* allTokens() of the proxy contract: token_uid by position.
Tokens == <<"TK0", "TK1">>

\* A variant of getTokenIndex whose result starts at 0 instead of null.
getTokenIndexFromZero(l1token, tokens) ==
  IF \E i \in 1..Len(tokens) : tokens[i] = l1token
  THEN (CHOOSE i \in 1..Len(tokens) :
          /\ tokens[i] = l1token
          /\ \A j \in 1..(i - 1) : tokens[j] # l1token) - 1
  ELSE 0

\* getTokenIndex: the 0-based position of the first token whose token_uid is
\* l1token, or -1 (null).
getTokenIndex(l1token, tokens) ==
  IF \E i \in 1..Len(tokens) : tokens[i] = l1token
  THEN (CHOOSE i \in 1..Len(tokens) :
          /\ tokens[i] = l1token
          /\ \A j \in 1..(i - 1) : tokens[j] # l1token) - 1
  ELSE -1

(***************************************************************************)
(* The TopUp logs an L1 chain may hold, in (block, log index) order.       *)
(***************************************************************************)
LogTable == <<
  [txHash |-> "tA", blockNumber |-> 1, l1token |-> "TK0", pid_1 |-> 1, pid_2 |-> 2,
   amount |-> <<1, 0, 0>>],
  [txHash |-> "tA", blockNumber |-> 1, l1token |-> "TK0", pid_1 |-> 1, pid_2 |-> 2,
   amount |-> <<2, 0, 0>>],
  [txHash |-> "tB", blockNumber |-> 2, l1token |-> "TK0", pid_1 |-> 1, pid_2 |-> 2,
   amount |-> <<1, 0, 0>>],
  [txHash |-> "tC", blockNumber |-> 1, l1token |-> "TK1", pid_1 |-> 1, pid_2 |-> 2,
   amount |-> <<0, 999999999, 999999999>>],
  [txHash |-> "tB", blockNumber |-> 2, l1token |-> "TKX", pid_1 |-> 1, pid_2 |-> 2,
   amount |-> <<1, 0, 0>>],
  [txHash |-> "tA", blockNumber |-> 1, l1token |-> "TK0", pid_1 |-> 1, pid_2 |-> 2,
   amount |-> <<0, 1, 0>>] >>

LogIds == 1..Len(LogTable)
TxHashes == {LogTable[i].txHash : i \in LogIds}

\* The chains the service is run against: each a sequence of log ids.
Chains == { <<1, 3>>, <<1, 2>>, <<4, 5>>, <<1, 6>>, <<3, 5>> }

\* What admin.deposit / admin.checkDeposit are called with for a log:
\* <<pid_1, pid_2, tokenIndex, amount>>.
Sig(id) ==
  <<LogTable[id].pid_1, LogTable[id].pid_2,
    getTokenIndex(LogTable[id].l1token, Tokens), AmountInEther(LogTable[id].amount)>>

Heads == (0..SmallHeads) \cup {batchSize + SmallHeads}

(***************************************************************************)
(* The tracking store: one document per txHash (txSchema).  state "absent" *)
(* stands for no document; nonce -1 for an unset nonce.                    *)
(***************************************************************************)
NoNonce == -1
NoDoc == [state |-> "absent", nonce |-> NoNonce, retryCount |-> 0, amount |-> 0]

\* new TxHash({txHash, state, ..., amount}): nonce unset, retryCount default 0.
NewDoc(state, amount) ==
  [state |-> state, nonce |-> NoNonce, retryCount |-> 0, amount |-> amount]

\* tx.save() of a new document inserts it; txHash is a unique key (line 8), so
\* the insert throws when the collection holds a record of the txHash.
Inserts(st, h) == st[h].state = "absent"

\* tx.save() of a tracked document: writes the modified paths, whatever the
\* stored state is.
SaveFields(st, h, doc, fields) ==
  [st EXCEPT ![h] = [f \in DOMAIN NoDoc |-> IF f \in fields THEN doc[f] ELSE @[f]]]

\* A variant of the conditional update without the filter state: {$ne:
\* 'completed'}: updateOne({txHash}, {state}).
UpdateOneUnfiltered(st, h, state) ==
  IF st[h].state # "absent"
  THEN [st EXCEPT ![h].state = state]
  ELSE st

\* A variant of the update that has no filter on the state and counts the
\* update in retryCount: updateOne({txHash}, {state, $inc: {retryCount: 1}}).
UpdateOneCounting(st, h, state) ==
  IF st[h].state # "absent"
  THEN [st EXCEPT ![h].state = state, ![h].retryCount = @ + 1]
  ELSE st

\* TxHash.updateOne({txHash, state: {$ne: 'completed'}}, {state}).
UpdateOne(st, h, state) ==
  IF st[h].state \notin {"absent", "completed"}
  THEN [st EXCEPT ![h].state = state]
  ELSE st

(***************************************************************************)
(* State.                                                                  *)
(***************************************************************************)
VARIABLES
  chain,                \* the TopUp logs of the L1 contract (log ids, in order)
  head,                 \* provider.getBlockNumber()
  cfgStart,             \* config.startBlock, -1 for undefined
  player,               \* history: the command createPlayer sent last, and how it went
  lastNonce,            \* history: the nonce of the last admin.deposit call per txHash
  call,                 \* a createCommand call: its arguments and what it returned
  other,                \* the locals of a second deposit process on the same store
  settle,               \* the settlement service: bundle records, poller, L1 submissions
  extract,              \* instArr of a proof and what the extraction functions gave
  store,                \* the TxHash collection
  l2log,                \* L2: the deposits accepted, l2log[n + 1] with nonce n
  proc,                 \* "running", "crashed" or "exit1"
  phase,                \* the position in serve()
  pc,                   \* the position in processTopUpEvent / performDeposit
  latestBlock,          \* getHistoricalTopUpEvents: latestBlock
  fromBlock,            \* the batch loops' fromBlock
  logs,                 \* the logs still to hand over (logs / processedLogs)
  lastProcessedBlock,   \* serve: lastProcessedBlock
  currentBlock,         \* poll: currentBlock
  retries,              \* poll: retries
  isProcessing,         \* serve: isProcessing
  ev,                   \* processTopUpEvent: the log being handled
  tx,                   \* processTopUpEvent: the document tx
  branch,               \* which branch of processTopUpEvent called performDeposit
  isProcessingDeposit,  \* Deposit.isProcessingDeposit
  faults,               \* failures injected so far
  handed,               \* history: logs whose processTopUpEvent call has returned
  submitted,            \* history: the admin.deposit calls made per txHash
  trace,                \* history: L2 calls and store writes of the current call
  result,               \* history: how the last call ended: "ok", "threw" or "none"
  batches               \* history: the getLogs ranges of the current sweep / round

envVars == <<chain, head, cfgStart, player, lastNonce, call, other, settle, extract>>
scanVars == <<phase, latestBlock, fromBlock, logs, lastProcessedBlock, currentBlock,
              retries, isProcessing, batches>>
smVars == <<pc, ev, tx, branch, isProcessingDeposit, trace, result>>
vars == <<chain, head, cfgStart, player, lastNonce, call,
          other, settle, extract, store, l2log, proc, phase, pc, latestBlock, fromBlock,
          logs, lastProcessedBlock, currentBlock, retries, isProcessing, ev, tx, branch,
          isProcessingDeposit, faults, handed, submitted, trace, result, batches>>

Log(id) == LogTable[id]

\* The locals of a process that is not inside serve(): a fresh Deposit object.
FreshProcess ==
  /\ phase' = "start"
  /\ pc' = "none"
  /\ latestBlock' = 0
  /\ fromBlock' = 0
  /\ logs' = <<>>
  /\ lastProcessedBlock' = 0
  /\ currentBlock' = 0
  /\ retries' = 0
  /\ isProcessing' = FALSE
  /\ tx' = NoDoc
  /\ branch' = "none"
  /\ isProcessingDeposit' = FALSE
  /\ batches' = <<>>

(***************************************************************************)
(* Unbounded integers (BigInt, BN): the sequence of the hex digits, least  *)
(* significant first, without leading zeros; zero is <<>>.                 *)
(***************************************************************************)
\* n * m + carry for a small m.
RECURSIVE MulSmall(_, _, _)
MulSmall(n, m, carry) ==
  IF n = <<>>
  THEN IF carry = 0 THEN <<>> ELSE <<carry % 16>> \o MulSmall(<<>>, m, carry \div 16)
  ELSE LET v == Head(n) * m + carry IN <<v % 16>> \o MulSmall(Tail(n), m, v \div 16)

\* n << bits for BigInt and bn.shln(bits), bits a multiple of 4.
shln(n, bits) == IF n = <<>> THEN <<>> ELSE [i \in 1..(bits \div 4) |-> 0] \o n

\* a + b for BigInt and a.add(b)
RECURSIVE AddCarry(_, _, _)
AddCarry(a, b, carry) ==
  IF a = <<>> /\ b = <<>>
  THEN IF carry = 0 THEN <<>> ELSE <<carry>>
  ELSE LET x == IF a = <<>> THEN 0 ELSE Head(a)
           y == IF b = <<>> THEN 0 ELSE Head(b)
           v == x + y + carry
       IN <<v % 16>> \o AddCarry(IF a = <<>> THEN a ELSE Tail(a),
                                IF b = <<>> THEN b ELSE Tail(b), v \div 16)

add(a, b) == AddCarry(a, b, 0)

\* BigInt(k) for a small k.
FromNat(k) == MulSmall(<<>>, 0, k)

\* The digits of a sequence without the zeros at its end.
RECURSIVE Normalize(_)
Normalize(n) ==
  IF n = <<>> THEN <<>>
  ELSE IF n[Len(n)] = 0 THEN Normalize(SubSeq(n, 1, Len(n) - 1)) ELSE n

\* An element stored in a BigUint64Array: the value modulo 2^64.
AsUint64(n) == Normalize(SubSeq(n, 1, IF Len(n) < 16 THEN Len(n) ELSE 16))

\* A variant of createCommand that counts the parameters without the command
\* word.
createCommandLenOnly(nonce, command, params) ==
  LET cmd == add(add(shln(nonce, 16), shln(FromNat(Len(params)), 8)), command)
      buf == <<cmd>> \o params
  IN [i \in 1..Len(buf) |-> AsUint64(buf[i])]

\* createCommand (lines 96-102): (nonce << 16n) + (BigInt(params.length + 1)
\* << 8n) + command, then the parameters, as a BigUint64Array.
createCommand(nonce, command, params) ==
  LET cmd == add(add(shln(nonce, 16), shln(FromNat(Len(params) + 1), 8)), command)
      buf == <<cmd>> \o params
  IN [i \in 1..Len(buf) |-> AsUint64(buf[i])]

\* createCommand has not been called.
NoCall == [nonce |-> <<>>, command |-> <<>>, params |-> <<>>, words |-> <<>>, state |-> "none"]

\* createPlayer has not been called.
NoPlayer == [nonce |-> -1, command |-> 0, params |-> <<>>, words |-> <<>>, outcome |-> "none"]

\* The settlement service before its first round: no bundle is ready, no
\* record exists, nothing was submitted to L1.
NoSettlement ==
  [ready |-> 0, status |-> [t \in 1..MaxTasks |-> "none"],
   settleTxHash |-> [t \in 1..MaxTasks |-> 0],
   pc |-> "idle", cur |-> 0, sent |-> <<>>, reverts |-> 0]

\* No proof is being looked at.
NotApplied == [kind |-> "none", prefix |-> "", digits |-> <<>>]

NoExtraction ==
  [instArr |-> <<>>, merkleRoot |-> NotApplied, newMerkleRoot |-> NotApplied,
   shaHash |-> NotApplied]

\* No second process.
NoPeer == [proc |-> "none"]

Init ==
  /\ chain \in Chains
  /\ head \in 0..SmallHeads
  /\ cfgStart = -1
  /\ store = [h \in TxHashes |-> NoDoc]
  /\ other = NoPeer
  /\ settle = NoSettlement
  /\ player = NoPlayer
  /\ lastNonce = [h \in TxHashes |-> NoNonce]
  /\ call = NoCall
  /\ extract = NoExtraction
  /\ l2log = <<>>
  /\ submitted = [h \in TxHashes |-> 0]
  /\ proc = "running"
  /\ phase = "start"
  /\ pc = "none"
  /\ latestBlock = 0
  /\ fromBlock = 0
  /\ logs = <<>>
  /\ lastProcessedBlock = 0
  /\ currentBlock = 0
  /\ retries = 0
  /\ isProcessing = FALSE
  /\ ev = 0
  /\ tx = NoDoc
  /\ branch = "none"
  /\ isProcessingDeposit = FALSE
  /\ faults = 0
  /\ handed = {}
  /\ trace = <<>>
  /\ result = "none"
  /\ batches = <<>>

\* A call that fails (throws, or the process stops) is a fault of the behaviour.
CanFail == faults < MaxFaults
Fail == faults' = faults + 1
NoFail == faults' = faults

\* process.exit(1): the locals are gone, the store and both chains stay.  ev
\* and trace keep what the call had done when the process ended.
Exit1 ==
  /\ proc' = "exit1"
  /\ ev' = ev
  /\ handed' = handed
  /\ result' = result
  /\ FreshProcess

(***************************************************************************)
(* What the callers do when processTopUpEvent returns (ok) or throws.      *)
(***************************************************************************)
\* A variant of poll's catch and finally that leaves isProcessing set when the
\* attempts are used up.
PollCatchFlagKept ==
  /\ retries' = retries - 1
  /\ logs' = <<>>
  /\ fromBlock' = 0
  /\ currentBlock' = 0
  /\ IF retries - 1 = 0
     THEN phase' = "timer" /\ isProcessing' = isProcessing
     ELSE phase' = "pollHead" /\ isProcessing' = isProcessing
  /\ UNCHANGED <<latestBlock, lastProcessedBlock, batches>>

\* poll's catch (lines 525-534): one retry less; the round ends at 0, else the
\* attempt starts again after 2 s.
PollCatch ==
  /\ retries' = retries - 1
  /\ logs' = <<>>
  /\ fromBlock' = 0
  /\ currentBlock' = 0
  /\ IF retries - 1 = 0
     THEN phase' = "timer" /\ isProcessing' = FALSE
     ELSE phase' = "pollHead" /\ isProcessing' = isProcessing
  /\ UNCHANGED <<latestBlock, lastProcessedBlock, batches>>

\* The for-loops over logs go on with the next log: in the sweep whether the
\* call returned or threw (lines 426-431), in the poll when it returned.
NextLog ==
  /\ logs' = Tail(logs)
  /\ UNCHANGED <<phase, latestBlock, fromBlock, lastProcessedBlock, currentBlock,
                 retries, isProcessing, batches>>

Finish(ok) ==
  /\ pc' = "none"
  /\ tx' = NoDoc
  /\ branch' = "none"
  /\ ev' = ev
  /\ handed' = handed \cup {ev}
  /\ result' = IF ok THEN "ok" ELSE "threw"
  /\ proc' = proc
  /\ IF phase = "histLogs" \/ ok THEN NextLog ELSE PollCatch

\* The call goes on inside processTopUpEvent.
Goto(next) ==
  /\ pc' = next
  /\ UNCHANGED <<proc, ev, handed, result, scanVars>>

Called(what) == trace' = Append(trace, what)

(***************************************************************************)
(* processTopUpEvent (lines 190-367).                                      *)
(***************************************************************************)
\* Line 328 reads tx.nonce through the getter of lines 14-20,
\* BigInt.asUintN(64, value).  For a record without nonce the getter is either
\* not run, the read yields undefined and lines 349-352 end the process, or it
\* is run on undefined and throws a TypeError that the catch of lines 353-356
\* rethrows to the caller; which of the two depends on the mongoose build.
NonceUnsetOutcomes == {"exit1", "threw"}

\* Lines 193-229, 286-290, 326-328, 349-361: decode, allTokens(), the token
\* index, findOne, and the dispatch on the record read.
Begin ==
  /\ proc = "running" /\ pc = "begin"
  /\ UNCHANGED <<envVars, store, l2log, submitted, isProcessingDeposit, trace>>
  /\ LET h == Log(ev).txHash
         tokenindex == getTokenIndex(Log(ev).l1token, Tokens)
         amountInEther == AmountInEther(Log(ev).amount)
         doc == store[h]
     IN
     \/ /\ CanFail /\ Fail                  \* allTokens() or findOne throws
        /\ Finish(FALSE)
     \/ /\ NoFail
        /\ IF tokenindex = -1 \/ doc.state = "completed"
           THEN Finish(TRUE)
           ELSE IF doc.state = "absent"
           THEN /\ tx' = NewDoc(IF amountInEther < 1 THEN "completed" ELSE "pending",
                                amountInEther)
                /\ branch' = "new"
                /\ Goto(IF amountInEther < 1 THEN "saveDust" ELSE "savePending")
           ELSE IF doc.state = "pending"
           THEN /\ tx' = doc
                /\ branch' = "pending"
                /\ Goto("getNonce")
           ELSE IF doc.state \in {"in-progress", "failed"}
           THEN IF doc.nonce # NoNonce
                THEN /\ tx' = doc
                     /\ branch' = "retry"
                     /\ Goto("checkDeposit")
                ELSE \E outcome \in NonceUnsetOutcomes :
                       IF outcome = "exit1"
                       THEN pc' = "none" /\ Exit1
                       ELSE Finish(FALSE)
           ELSE /\ pc' = "none"
                /\ Exit1

\* Lines 234-246: the dust record is saved as completed.
SaveDust ==
  /\ proc = "running" /\ pc = "saveDust"
  /\ UNCHANGED <<envVars, l2log, submitted, isProcessingDeposit>>
  /\ Called("save")
  /\ \/ /\ CanFail /\ Fail
        /\ store' = store
        /\ Finish(FALSE)
     \/ /\ NoFail
        /\ IF Inserts(store, Log(ev).txHash)
           THEN /\ store' = SaveFields(store, Log(ev).txHash, tx, DOMAIN NoDoc)
                /\ Finish(TRUE)
           ELSE /\ store' = store
                /\ Finish(FALSE)

\* Lines 249-258: the new record is saved as pending.
SavePending ==
  /\ proc = "running" /\ pc = "savePending"
  /\ UNCHANGED <<envVars, l2log, submitted, isProcessingDeposit>>
  /\ Called("save")
  /\ \/ /\ CanFail /\ Fail
        /\ store' = store
        /\ Finish(FALSE)
     \/ /\ NoFail
        /\ IF Inserts(store, Log(ev).txHash)
           THEN /\ store' = SaveFields(store, Log(ev).txHash, tx, DOMAIN NoDoc)
                /\ Goto("getNonce")
                /\ UNCHANGED <<tx, branch>>
           ELSE /\ store' = store
                /\ Finish(FALSE)

\* A variant in which the retry count incremented in memory is written to the
\* store before the nonce fetch throws.
GetNoncePersisting ==
  /\ proc = "running" /\ pc = "getNonce"
  /\ UNCHANGED <<envVars, l2log, submitted, isProcessingDeposit>>
  /\ Called("getNonce")
  /\ \/ /\ CanFail /\ Fail
        /\ store' = SaveFields(store, Log(ev).txHash, tx, {"retryCount"})
        /\ Finish(FALSE)
     \/ /\ NoFail
        /\ store' = store
        /\ tx' = [tx EXCEPT !.nonce = Len(l2log)]
        /\ Goto("saveNonce")
        /\ UNCHANGED branch

\* admin.getNonce() (lines 262-268, 293-298, 340-345): the nonce L2 accepts
\* next; null ends the process.
GetNonce ==
  /\ proc = "running" /\ pc = "getNonce"
  /\ UNCHANGED <<envVars, store, l2log, submitted, isProcessingDeposit>>
  /\ Called("getNonce")
  /\ \/ /\ CanFail /\ Fail
        /\ Finish(FALSE)
     \/ /\ CanFail /\ Fail
        /\ pc' = "none"
        /\ Exit1
     \/ /\ NoFail
        /\ tx' = [tx EXCEPT !.nonce = Len(l2log)]
        /\ Goto("saveNonce")
        /\ UNCHANGED branch

\* A variant in which the save after getNonce does not write the nonce.
NonceFieldsWithoutNonce(b) == IF b = "retry" THEN {"retryCount"} ELSE {}

\* A variant whose retry branch does not persist the incremented retryCount.
NonceFieldsWithoutRetryCount(b) == {"nonce"}

\* The fields tx.save() writes after the nonce was assigned: tx.nonce (lines
\* 268-269, 298-300), with retryCount in the retry branch (lines 338-346).
NonceFields(b) == IF b = "retry" THEN {"nonce", "retryCount"} ELSE {"nonce"}

\* A variant in which the retry branch too saves in-progress before it calls
\* performDeposit.
AfterNonceInProgressFirst(b, amountInEther) ==
  IF b = "pending" /\ amountInEther < 1 THEN "markCompleted" ELSE "saveInProgress"

\* A variant that calls performDeposit right after the nonce is saved, without
\* saving in-progress first.
AfterNonceStraightToDeposit(b, amountInEther) ==
  IF b = "pending" /\ amountInEther < 1 THEN "markCompleted" ELSE "pdEnter"

\* What follows the save of the nonce: performDeposit in the retry branch
\* (line 347), updateTxState completed for a pending dust record (lines
\* 306-311), else the save of in-progress (lines 276, 314).
AfterNonce(b, amountInEther) ==
  IF b = "retry" THEN "pdEnter"
  ELSE IF b = "pending" /\ amountInEther < 1 THEN "markCompleted"
  ELSE "saveInProgress"

SaveNonce ==
  /\ proc = "running" /\ pc = "saveNonce"
  /\ UNCHANGED <<envVars, l2log, submitted, isProcessingDeposit>>
  /\ Called("save")
  /\ \/ /\ CanFail /\ Fail
        /\ store' = store
        /\ Finish(FALSE)
     \/ /\ NoFail
        /\ store' = SaveFields(store, Log(ev).txHash, tx, NonceFields(branch))
        /\ Goto(AfterNonce(branch, AmountInEther(Log(ev).amount)))
        /\ UNCHANGED <<tx, branch>>

\* updateTxState (lines 124-137): the conditional update; an error of the
\* store is caught and logged, the state stays.
updateTxState(h, state) ==
  /\ Called("updateOne")
  /\ \/ /\ NoFail
        /\ store' = UpdateOne(store, h, state)
     \/ /\ CanFail /\ Fail
        /\ store' = store

\* Lines 275-277, 313-315: tx.state = 'in-progress' is saved; when the save
\* throws, the catch of lines 279-283 / 317-321 takes over.
SaveInProgress ==
  /\ proc = "running" /\ pc = "saveInProgress"
  /\ UNCHANGED <<envVars, l2log, submitted, isProcessingDeposit, branch>>
  /\ Called("save")
  /\ \/ /\ CanFail /\ Fail
        /\ store' = store
        /\ tx' = [tx EXCEPT !.state = "in-progress"]
        /\ Goto("markFailed")
     \/ /\ NoFail
        /\ tx' = [tx EXCEPT !.state = "in-progress"]
        /\ store' = SaveFields(store, Log(ev).txHash, tx', {"state"})
        /\ Goto("pdEnter")

\* Lines 279-283, 317-321: the catch around performDeposit marks the record
\* failed and rethrows.
MarkFailed ==
  /\ proc = "running" /\ pc = "markFailed"
  /\ UNCHANGED <<envVars, l2log, submitted, isProcessingDeposit>>
  /\ updateTxState(Log(ev).txHash, "failed")
  /\ Finish(FALSE)

\* Lines 306-311 and 330-335: updateTxState completed, and return.
MarkCompleted ==
  /\ proc = "running" /\ pc = "markCompleted"
  /\ UNCHANGED <<envVars, l2log, submitted, isProcessingDeposit>>
  /\ updateTxState(Log(ev).txHash, "completed")
  /\ Finish(TRUE)

\* admin.checkDeposit(nonce, pid_1, pid_2, tokenIndex, amount): the deposit L2
\* accepted with this nonce and these arguments, if there is one.
checkDeposit(ledger, nonce, sig) ==
  nonce + 1 \in DOMAIN ledger /\ Sig(ledger[nonce + 1]) = sig

\* A variant of the retry branch that resubmits without asking checkDeposit.
CheckDepositSkipped ==
  /\ proc = "running" /\ pc = "checkDeposit"
  /\ UNCHANGED <<envVars, store, l2log, submitted, isProcessingDeposit, branch, trace>>
  /\ NoFail
  /\ tx.retryCount < MaxRetry
  /\ tx' = [tx EXCEPT !.retryCount = @ + 1]
  /\ Goto("getNonce")

\* Lines 326-340: verify first; on null the retry is counted.
CheckDeposit ==
  /\ proc = "running" /\ pc = "checkDeposit"
  /\ UNCHANGED <<envVars, store, l2log, submitted, isProcessingDeposit, branch>>
  /\ Called("checkDeposit")
  /\ \/ /\ CanFail /\ Fail
        /\ Finish(FALSE)
     \/ /\ NoFail
        /\ checkDeposit(l2log, tx.nonce, Sig(ev))
        /\ Goto("markCompleted")
        /\ tx' = tx
     \/ /\ NoFail
        /\ ~checkDeposit(l2log, tx.nonce, Sig(ev))
        /\ tx.retryCount < MaxRetry
        /\ tx' = [tx EXCEPT !.retryCount = @ + 1]
        /\ Goto("getNonce")

(***************************************************************************)
(* performDeposit (lines 148-188).                                         *)
(***************************************************************************)
\* A variant in which no branch of processTopUpEvent marks the record when
\* performDeposit throws.
PerformDepositThrewUnmarked == Finish(FALSE)

\* How processTopUpEvent goes on when performDeposit throws: the catch of
\* lines 279-283 / 317-321 marks the record failed; the retry branch only
\* rethrows (lines 353-356).
PerformDepositThrew ==
  IF branch = "retry" THEN Finish(FALSE) ELSE Goto("markFailed") /\ UNCHANGED <<tx, branch>>

\* How processTopUpEvent goes on when performDeposit returns: it returns too
\* (lines 278, 316, 347).
PerformDepositReturned == Finish(TRUE)

\* A variant of the entry of performDeposit without the check of lines
\* 160-164.
PdEnterUnchecked ==
  /\ proc = "running" /\ pc = "pdEnter"
  /\ UNCHANGED <<envVars, store, l2log, submitted, trace>>
  /\ IF isProcessingDeposit
     THEN NoFail /\ Exit1
     ELSE \/ /\ CanFail /\ Fail
             /\ isProcessingDeposit' = TRUE
             /\ Goto("pdCatch")
             /\ UNCHANGED <<tx, branch>>
          \/ /\ NoFail
             /\ isProcessingDeposit' = TRUE
             /\ Goto("pdDeposit")
             /\ UNCHANGED <<tx, branch>>

\* A variant of the entry of performDeposit without the guard of lines
\* 149-152.
PdEnterUnguarded ==
  /\ proc = "running" /\ pc = "pdEnter"
  /\ UNCHANGED <<envVars, store, l2log, submitted, trace>>
  /\ NoFail
  /\ isProcessingDeposit' = TRUE
  /\ Goto("pdDeposit")
  /\ UNCHANGED <<tx, branch>>

\* Lines 149-164: the reentrancy guard, the flag, and the re-read of the
\* record; a completed record ends the process.
PdEnter ==
  /\ proc = "running" /\ pc = "pdEnter"
  /\ UNCHANGED <<envVars, store, l2log, submitted, trace>>
  /\ IF isProcessingDeposit
     THEN NoFail /\ Exit1
     ELSE \/ /\ CanFail /\ Fail              \* findOne throws: the catch of line 176
             /\ isProcessingDeposit' = TRUE
             /\ Goto("pdCatch")
             /\ UNCHANGED <<tx, branch>>
          \/ /\ NoFail
             /\ IF store[Log(ev).txHash].state = "completed"
                THEN Exit1
                ELSE /\ isProcessingDeposit' = TRUE
                     /\ Goto("pdDeposit")
                     /\ UNCHANGED <<tx, branch>>

\* L2 accepts a deposit command whose nonce is the admin's next nonce.
Accepts(ledger, nonce) == nonce = Len(ledger)

\* Line 167: admin.deposit(nonce, pid_1, pid_2, tokenIndex, amountInEther).
\* L2 may accept the command and the answer be lost; a command L2 did not
\* accept throws or returns a falsy result.
PdDeposit ==
  /\ proc = "running" /\ pc = "pdDeposit"
  /\ UNCHANGED <<chain, head, cfgStart, player, call, other, settle, extract, store,
                 isProcessingDeposit, tx, branch>>
  /\ Called("deposit")
  /\ submitted' = [submitted EXCEPT ![Log(ev).txHash] = @ + 1]
  /\ lastNonce' = [lastNonce EXCEPT ![Log(ev).txHash] = tx.nonce]
  /\ \/ /\ Accepts(l2log, tx.nonce)
        /\ l2log' = Append(l2log, ev)
        /\ \/ NoFail /\ Goto("pdMarkCompleted")
           \/ CanFail /\ Fail /\ Goto("pdCatch")
     \/ /\ CanFail /\ Fail
        /\ l2log' = l2log
        /\ \/ Goto("pdCatch")
           \/ Goto("pdMarkFailed")

\* Lines 173-175, 185-187: the record is marked completed, the flag is
\* cleared and performDeposit returns true.
PdMarkCompleted ==
  /\ proc = "running" /\ pc = "pdMarkCompleted"
  /\ UNCHANGED <<envVars, l2log, submitted>>
  /\ updateTxState(Log(ev).txHash, "completed")
  /\ isProcessingDeposit' = FALSE
  /\ PerformDepositReturned

\* Lines 168-171: a falsy result marks the record failed and throws into the
\* catch of line 176.
PdMarkFailed ==
  /\ proc = "running" /\ pc = "pdMarkFailed"
  /\ UNCHANGED <<envVars, l2log, submitted, isProcessingDeposit, tx, branch>>
  /\ updateTxState(Log(ev).txHash, "failed")
  /\ Goto("pdCatch")

\* A variant of performDeposit without the finally block of lines 185-187 on
\* the error path.
PdCatchFlagKept ==
  /\ proc = "running" /\ pc = "pdCatch"
  /\ UNCHANGED <<envVars, l2log, submitted>>
  /\ isProcessingDeposit' = isProcessingDeposit
  /\ \/ /\ CanFail /\ Fail
        /\ UNCHANGED <<store, trace>>
        /\ PerformDepositThrew
     \/ /\ store[Log(ev).txHash].state = "completed"
        /\ NoFail
        /\ UNCHANGED <<store, trace>>
        /\ PerformDepositReturned
     \/ /\ store[Log(ev).txHash].state # "completed"
        /\ updateTxState(Log(ev).txHash, "failed")
        /\ PerformDepositThrew

\* Lines 176-187: the catch re-reads the record; completed returns true, else
\* the record is marked failed and the error is rethrown; finally clears the
\* flag.
PdCatch ==
  /\ proc = "running" /\ pc = "pdCatch"
  /\ UNCHANGED <<envVars, l2log, submitted>>
  /\ isProcessingDeposit' = FALSE
  /\ \/ /\ CanFail /\ Fail                   \* findOne throws
        /\ UNCHANGED <<store, trace>>
        /\ PerformDepositThrew
     \/ /\ store[Log(ev).txHash].state = "completed"
        /\ NoFail
        /\ UNCHANGED <<store, trace>>
        /\ PerformDepositReturned
     \/ /\ store[Log(ev).txHash].state # "completed"
        /\ updateTxState(Log(ev).txHash, "failed")
        /\ PerformDepositThrew

(***************************************************************************)
(* The L1 provider.                                                        *)
(***************************************************************************)
\* provider.getLogs({address, topics, fromBlock, toBlock}): the TopUp logs of
\* the blocks fromBlock..toBlock, in chain order.
InRange(id, from, to) == from <= Log(id).blockNumber /\ Log(id).blockNumber <= to

getLogs(ch, from, to) == SelectSeq(ch, LAMBDA id : InRange(id, from, to))

Min(a, b) == IF a < b THEN a ELSE b
Max(a, b) == IF a > b THEN a ELSE b

\* The scanner is between two calls of processTopUpEvent.
ClearCall ==
  /\ ev' = 0
  /\ trace' = <<>>
  /\ result' = "none"
  /\ UNCHANGED <<pc, tx, branch, isProcessingDeposit>>

\* await this.processTopUpEvent(log)
Call(id) ==
  /\ pc' = "begin"
  /\ ev' = id
  /\ trace' = <<>>
  /\ result' = "none"
  /\ UNCHANGED <<tx, branch, isProcessingDeposit>>

(***************************************************************************)
(* serve (lines 448-552) and getHistoricalTopUpEvents (lines 369-446).     *)
(***************************************************************************)
\* Lines 449-454: mongoose.connect; when it throws serve() rejects, main logs
\* the error (part_001 line 98) and nothing else is started.
ServeStart ==
  /\ proc = "running" /\ phase = "start"
  /\ ClearCall
  /\ UNCHANGED <<envVars, store, l2log, submitted, proc, handed, latestBlock, fromBlock, logs,
                 lastProcessedBlock, currentBlock, retries, isProcessing, batches>>
  /\ \/ NoFail /\ phase' = "createPlayer"
     \/ CanFail /\ Fail /\ phase' = "halted"

\* Line 106.
CREATE_PLAYER == 1

\* A variant of createPlayer without the catch of lines 112-117: the error
\* rejects serve().
CreatePlayerAborting ==
  /\ proc = "running" /\ phase = "createPlayer"
  /\ ClearCall
  /\ UNCHANGED <<chain, head, cfgStart, lastNonce, call, other, settle, extract, store, l2log,
                 submitted, proc,
                 handed, latestBlock, fromBlock, logs, lastProcessedBlock, currentBlock,
                 retries, isProcessing, batches>>
  /\ \/ /\ NoFail
        /\ phase' = "histHead"
        /\ player' = [nonce |-> 0, command |-> CREATE_PLAYER, params |-> <<>>,
                      words |-> createCommand(FromNat(0), FromNat(CREATE_PLAYER), <<>>),
                      outcome |-> "sent"]
     \/ /\ CanFail /\ Fail
        /\ phase' = "halted"
        /\ player' = [nonce |-> 0, command |-> CREATE_PLAYER, params |-> <<>>,
                      words |-> createCommand(FromNat(0), FromNat(CREATE_PLAYER), <<>>),
                      outcome |-> "threw"]

\* Lines 104-118, 456-460: createPlayer sends createCommand(0n, CREATE_PLAYER,
\* []); an error of sendTransaction is caught and logged, and serve() goes on
\* to the historical sweep.
CreatePlayer ==
  /\ proc = "running" /\ phase = "createPlayer"
  /\ ClearCall
  /\ UNCHANGED <<chain, head, cfgStart, lastNonce, call, other, settle, extract, store, l2log,
                 submitted, proc,
                 handed, latestBlock, fromBlock, logs, lastProcessedBlock, currentBlock,
                 retries, isProcessing, batches>>
  /\ phase' = "histHead"
  /\ \/ /\ NoFail
        /\ player' = [nonce |-> 0, command |-> CREATE_PLAYER, params |-> <<>>,
                      words |-> createCommand(FromNat(0), FromNat(CREATE_PLAYER), <<>>),
                      outcome |-> "sent"]
     \/ /\ CanFail /\ Fail
        /\ player' = [nonce |-> 0, command |-> CREATE_PLAYER, params |-> <<>>,
                      words |-> createCommand(FromNat(0), FromNat(CREATE_PLAYER), <<>>),
                      outcome |-> "threw"]

\* A variant that takes the configured start block without comparing it with
\* the head.
HistStartBlockUnchecked(cfg, latest) ==
  IF cfg # -1 THEN cfg ELSE Max(0, latest - totalBlocksToScan)

\* Lines 376-386: the first block of the sweep, -1 when the sweep is skipped.
HistStartBlock(cfg, latest) ==
  IF cfg # -1
  THEN IF cfg > latest THEN -1 ELSE cfg
  ELSE Max(0, latest - totalBlocksToScan)

\* Lines 370-401: the head is read and the start block chosen; an error ends
\* the sweep (catch of line 441).
HistHead ==
  /\ proc = "running" /\ phase = "histHead"
  /\ ClearCall
  /\ UNCHANGED <<envVars, store, l2log, submitted, proc, handed, logs, lastProcessedBlock,
                 currentBlock, retries, isProcessing>>
  /\ batches' = <<>>
  /\ \/ /\ CanFail /\ Fail
        /\ phase' = "pollInit"
        /\ UNCHANGED <<latestBlock, fromBlock>>
     \/ /\ NoFail
        /\ latestBlock' = head
        /\ IF HistStartBlock(cfgStart, head) = -1
           THEN phase' = "pollInit" /\ fromBlock' = fromBlock
           ELSE phase' = "histBatch" /\ fromBlock' = HistStartBlock(cfgStart, head)

\* Line 403: the loop condition of the sweep.
HistMore(from, latest) == from < latest

\* Line 404.
HistToBlock(from, latest) == Min(from + batchSize - 1, latest)

\* Lines 403-415, 433-437: one getLogs batch of the sweep; a failing batch is
\* skipped.
HistBatch ==
  /\ proc = "running" /\ phase = "histBatch"
  /\ ClearCall
  /\ UNCHANGED <<envVars, store, l2log, submitted, proc, handed, latestBlock, lastProcessedBlock,
                 currentBlock, retries, isProcessing>>
  /\ IF HistMore(fromBlock, latestBlock)
     THEN /\ batches' = Append(batches, <<fromBlock, HistToBlock(fromBlock, latestBlock)>>)
          /\ \/ /\ CanFail /\ Fail
                /\ fromBlock' = fromBlock + batchSize
                /\ UNCHANGED <<phase, logs>>
             \/ /\ NoFail
                /\ logs' = getLogs(chain, fromBlock, HistToBlock(fromBlock, latestBlock))
                /\ phase' = "histLogs"
                /\ fromBlock' = fromBlock
     ELSE /\ NoFail
          /\ phase' = "pollInit"
          /\ UNCHANGED <<fromBlock, logs, batches>>

\* A variant of the sweep's filter that hands over every log.
HistWantedAlways(doc) == TRUE

\* Line 421: the sweep hands over the logs of unknown and unfinished records.
HistWanted(doc) == doc.state \in {"absent", "pending", "in-progress", "failed"}

\* Lines 417-432: the next log of the batch; an error of findTxByHash is
\* caught per log.
HistLogs ==
  /\ proc = "running" /\ phase = "histLogs" /\ pc = "none"
  /\ UNCHANGED <<envVars, store, l2log, submitted, proc, handed>>
  /\ IF logs = <<>>
     THEN /\ NoFail
          /\ ClearCall
          /\ phase' = "histBatch"
          /\ fromBlock' = fromBlock + batchSize
          /\ UNCHANGED <<latestBlock, logs, lastProcessedBlock, currentBlock, retries,
                         isProcessing, batches>>
     ELSE \/ /\ CanFail /\ Fail
             /\ ClearCall
             /\ NextLog
          \/ /\ NoFail
             /\ IF HistWanted(store[Log(Head(logs)).txHash])
                THEN Call(Head(logs)) /\ UNCHANGED scanVars
                ELSE ClearCall /\ NextLog

\* Line 463: the cursor starts at the head read after the sweep; an error
\* rejects serve() and no poll is ever scheduled.
PollInit ==
  /\ proc = "running" /\ phase = "pollInit"
  /\ ClearCall
  /\ UNCHANGED <<envVars, store, l2log, submitted, proc, handed, latestBlock, fromBlock, logs,
                 currentBlock, retries, isProcessing, batches>>
  /\ \/ /\ CanFail /\ Fail
        /\ phase' = "halted"
        /\ lastProcessedBlock' = lastProcessedBlock
     \/ /\ NoFail
        /\ phase' = "timer"
        /\ lastProcessedBlock' = head

\* A variant of the start of poll() without the guard of lines 467-471.
PollStartUnguarded ==
  /\ proc = "running" /\ phase = "timer"
  /\ NoFail
  /\ ClearCall
  /\ UNCHANGED <<envVars, store, l2log, submitted, proc, handed, latestBlock, fromBlock, logs,
                 lastProcessedBlock, currentBlock, batches>>
  /\ isProcessing' = TRUE
  /\ retries' = PollRetries
  /\ phase' = "pollHead"

\* Lines 543-550, 466-478: the 30 s timer fires and poll() starts a round
\* unless one is running.
PollStart ==
  /\ proc = "running" /\ phase = "timer"
  /\ NoFail
  /\ ClearCall
  /\ UNCHANGED <<envVars, store, l2log, submitted, proc, handed, latestBlock, fromBlock, logs,
                 lastProcessedBlock, currentBlock, batches>>
  /\ IF isProcessing
     THEN UNCHANGED <<phase, retries, isProcessing>>
     ELSE /\ isProcessing' = TRUE
          /\ retries' = PollRetries
          /\ phase' = "pollHead"

\* The round is over (break or retries exhausted; finally of lines 536-540).
RoundEnds ==
  /\ phase' = "timer"
  /\ isProcessing' = FALSE
  /\ retries' = 0
  /\ logs' = <<>>
  /\ fromBlock' = 0
  /\ currentBlock' = 0

\* Lines 480-498, 521-524: the head is read; nothing to do unless it is past
\* the cursor.
PollHead ==
  /\ proc = "running" /\ phase = "pollHead"
  /\ ClearCall
  /\ UNCHANGED <<envVars, store, l2log, submitted, proc, handed>>
  /\ \/ /\ CanFail /\ Fail
        /\ PollCatch
     \/ /\ NoFail
        /\ UNCHANGED <<latestBlock, lastProcessedBlock>>
        /\ batches' = <<>>
        /\ IF head > lastProcessedBlock
           THEN /\ phase' = "pollBatch"
                /\ currentBlock' = head
                /\ fromBlock' = lastProcessedBlock + 1
                /\ logs' = <<>>
                /\ UNCHANGED <<retries, isProcessing>>
           ELSE RoundEnds

\* A variant of the sub-batch's upper bound that is not cut at the head.
PollToBlockUncut(from, current) == from + maxBatchSize - 1

\* A variant of the sub-batch's upper bound that is one block too far.
PollToBlockOneMore(from, current) == Min(from + maxBatchSize, current)

\* Line 499.
PollToBlock(from, current) == Min(from + maxBatchSize - 1, current)

\* Lines 498-510: one getLogs sub-batch of the round.
PollBatch ==
  /\ proc = "running" /\ phase = "pollBatch"
  /\ ClearCall
  /\ UNCHANGED <<envVars, store, l2log, submitted, proc, handed>>
  /\ IF fromBlock <= currentBlock
     THEN \/ /\ CanFail /\ Fail
             /\ PollCatch
          \/ /\ NoFail
             /\ logs' = logs \o getLogs(chain, fromBlock, PollToBlock(fromBlock, currentBlock))
             /\ batches' = Append(batches, <<fromBlock, PollToBlock(fromBlock, currentBlock)>>)
             /\ fromBlock' = fromBlock + maxBatchSize
             /\ UNCHANGED <<phase, latestBlock, lastProcessedBlock, currentBlock, retries,
                            isProcessing>>
     ELSE /\ NoFail
          /\ phase' = "pollLogs"
          /\ UNCHANGED <<latestBlock, fromBlock, logs, lastProcessedBlock, currentBlock,
                         retries, isProcessing, batches>>

\* Lines 514-524: the logs are handed over one by one; then the cursor moves
\* to the head read at the start of the attempt.
PollLogs ==
  /\ proc = "running" /\ phase = "pollLogs" /\ pc = "none"
  /\ NoFail
  /\ UNCHANGED <<envVars, store, l2log, submitted, proc, handed>>
  /\ IF logs = <<>>
     THEN /\ ClearCall
          /\ lastProcessedBlock' = currentBlock
          /\ RoundEnds
          /\ UNCHANGED <<latestBlock, batches>>
     ELSE Call(Head(logs)) /\ UNCHANGED scanVars

(***************************************************************************)
(* The environment.                                                        *)
(***************************************************************************)
\* The process stops at a suspension point.
Crash ==
  /\ proc = "running"
  /\ CanFail /\ Fail
  /\ proc' = "crashed"
  /\ FreshProcess
  /\ ev' = 0
  /\ trace' = <<>>
  /\ result' = "none"
  /\ UNCHANGED <<envVars, store, l2log, submitted, handed>>

\* The process is started again.
Restart ==
  /\ proc # "running"
  /\ proc' = "running"
  /\ NoFail
  /\ FreshProcess
  /\ ev' = 0
  /\ trace' = <<>>
  /\ result' = "none"
  /\ UNCHANGED <<envVars, store, l2log, submitted, handed>>

\* A shutdown request, SIGTERM or SIGINT.  Neither main nor serve() installs a
\* handler, so the signal ends the process at once, wherever it is, and the
\* exit status is that of a process ended by a signal.
Sigterm ==
  /\ proc = "running"
  /\ proc' = "killed"
  /\ NoFail
  /\ FreshProcess
  /\ ev' = ev
  /\ trace' = trace
  /\ result' = result
  /\ UNCHANGED <<envVars, store, l2log, submitted, handed>>

\* L1 grows.
MineBlock ==
  /\ \E h \in Heads : h > head /\ head' = h
  /\ UNCHANGED <<chain, cfgStart, player, lastNonce, call, other, settle, extract, store, l2log, submitted, proc,
                 scanVars, smVars, faults, handed>>

Next ==
  \/ ServeStart \/ CreatePlayer \/ HistHead \/ HistBatch \/ HistLogs
  \/ PollInit \/ PollStart \/ PollHead \/ PollBatch \/ PollLogs
  \/ Begin \/ SaveDust \/ SavePending \/ GetNonce \/ SaveNonce \/ SaveInProgress
  \/ MarkFailed \/ MarkCompleted \/ CheckDeposit
  \/ PdEnter \/ PdDeposit \/ PdMarkCompleted \/ PdMarkFailed \/ PdCatch
  \/ Crash \/ Restart \/ MineBlock

Spec == Init /\ [][Next]_vars

(***************************************************************************)
(* The historical sweep alone, over start blocks and heads at, just below  *)
(* and just above the multiples of batchSize, on a chain without TopUp     *)
(* logs.                                                                   *)
(***************************************************************************)
SweepPoints ==
  {k * batchSize + d : k \in 0..SweepSpan, d \in {-1, 0, 1}} \cap Nat

InitSweep ==
  /\ chain = <<>>
  /\ head \in SweepPoints
  /\ cfgStart \in {-1} \cup SweepPoints
  /\ store = [h \in TxHashes |-> NoDoc]
  /\ other = NoPeer
  /\ settle = NoSettlement
  /\ player = NoPlayer
  /\ lastNonce = [h \in TxHashes |-> NoNonce]
  /\ call = NoCall
  /\ extract = NoExtraction
  /\ l2log = <<>>
  /\ submitted = [h \in TxHashes |-> 0]
  /\ proc = "running"
  /\ phase = "start"
  /\ pc = "none"
  /\ latestBlock = 0
  /\ fromBlock = 0
  /\ logs = <<>>
  /\ lastProcessedBlock = 0
  /\ currentBlock = 0
  /\ retries = 0
  /\ isProcessing = FALSE
  /\ ev = 0
  /\ tx = NoDoc
  /\ branch = "none"
  /\ isProcessingDeposit = FALSE
  /\ faults = 0
  /\ handed = {}
  /\ trace = <<>>
  /\ result = "none"
  /\ batches = <<>>

NextSweep == ServeStart \/ CreatePlayer \/ HistHead \/ HistBatch \/ HistLogs

SpecSweep == InitSweep /\ [][NextSweep]_vars

(***************************************************************************)
(* The running service under fair scheduling: the process is never stopped *)
(* from outside, every await settles and the 30 s timer keeps firing.  The *)
(* failures of a behaviour are bounded by MaxFaults, so L1, L2 and the     *)
(* store answer from some point on.                                        *)
(***************************************************************************)
Service ==
  \/ ServeStart \/ CreatePlayer \/ HistHead \/ HistBatch \/ HistLogs
  \/ PollInit \/ PollStart \/ PollHead \/ PollBatch \/ PollLogs
  \/ Begin \/ SaveDust \/ SavePending \/ GetNonce \/ SaveNonce \/ SaveInProgress
  \/ MarkFailed \/ MarkCompleted \/ CheckDeposit
  \/ PdEnter \/ PdDeposit \/ PdMarkCompleted \/ PdMarkFailed \/ PdCatch

NextRunning == Service \/ MineBlock

SpecRunning == Init /\ [][NextRunning]_vars /\ WF_vars(Service)

(***************************************************************************)
(* performDeposit called with either value of the flag isProcessingDeposit.*)
(* serve() itself never calls it with the flag set; the behaviours of Spec *)
(* are joined by those that start at a call of performDeposit (line 278 or *)
(* 347) made by the sweep for the first qualifying log of the chain.       *)
(***************************************************************************)
PerformDepositEntry ==
  /\ chain \in Chains
  /\ head = SmallHeads
  /\ cfgStart = -1
  /\ ev = chain[1]
  /\ getTokenIndex(Log(ev).l1token, Tokens) # -1
  /\ AmountInEther(Log(ev).amount) >= 1
  /\ branch \in {"new", "retry"}
  /\ tx \in {[state |-> st, nonce |-> 0, retryCount |-> IF branch = "retry" THEN 1 ELSE 0,
              amount |-> AmountInEther(Log(ev).amount)] :
               st \in IF branch = "retry" THEN {"in-progress", "failed"} ELSE {"in-progress"}}
  /\ store = [h \in TxHashes |-> IF h = Log(ev).txHash THEN tx ELSE NoDoc]
  /\ other = NoPeer
  /\ settle = NoSettlement
  /\ player = NoPlayer
  /\ lastNonce = [h \in TxHashes |-> NoNonce]
  /\ call = NoCall
  /\ extract = NoExtraction
  /\ l2log = <<>>
  /\ submitted = [h \in TxHashes |-> 0]
  /\ proc = "running"
  /\ phase = "histLogs"
  /\ pc = "pdEnter"
  /\ latestBlock = head
  /\ fromBlock = 0
  /\ logs = getLogs(chain, 0, head)
  /\ lastProcessedBlock = 0
  /\ currentBlock = 0
  /\ retries = 0
  /\ isProcessing = FALSE
  /\ isProcessingDeposit \in BOOLEAN
  /\ faults = 0
  /\ handed = {}
  /\ trace = IF branch = "retry" THEN <<"checkDeposit", "getNonce", "save">>
                                 ELSE <<"save", "getNonce", "save", "save">>
  /\ result = "none"
  /\ batches = << <<0, head>> >>

InitReentry == Init \/ PerformDepositEntry

SpecReentry == InitReentry /\ [][Next]_vars

(***************************************************************************)
(* poll() called with either value of isProcessing.  The timer chain of    *)
(* lines 543-548 itself never calls it while a round runs; the behaviours  *)
(* of Spec are joined by those that start when the timer fires after an    *)
(* empty sweep.                                                            *)
(***************************************************************************)
PollEntry ==
  /\ chain \in Chains
  /\ head \in 0..SmallHeads
  /\ cfgStart = -1
  /\ store = [h \in TxHashes |-> NoDoc]
  /\ other = NoPeer
  /\ settle = NoSettlement
  /\ player = NoPlayer
  /\ lastNonce = [h \in TxHashes |-> NoNonce]
  /\ call = NoCall
  /\ extract = NoExtraction
  /\ l2log = <<>>
  /\ submitted = [h \in TxHashes |-> 0]
  /\ proc = "running"
  /\ phase = "timer"
  /\ pc = "none"
  /\ latestBlock = head
  /\ fromBlock = 0
  /\ logs = <<>>
  /\ lastProcessedBlock = head
  /\ getLogs(chain, 0, head) = <<>>
  /\ currentBlock = 0
  /\ retries = 0
  /\ isProcessing \in BOOLEAN
  /\ ev = 0
  /\ tx = NoDoc
  /\ branch = "none"
  /\ isProcessingDeposit = FALSE
  /\ faults = 0
  /\ handed = {}
  /\ trace = <<>>
  /\ result = "none"
  /\ batches = <<>>

InitPollEntry == Init \/ PollEntry

SpecPollEntry == InitPollEntry /\ [][Next]_vars

(***************************************************************************)
(* The service with shutdown requests.                                     *)
(***************************************************************************)
NextShutdown == Next \/ Sigterm

SpecShutdown == Init /\ [][NextShutdown]_vars

(***************************************************************************)
(* Two deposit processes on one store and one L2 admin account, both       *)
(* sweeping the same chain.  The variables of serve() and of               *)
(* processTopUpEvent are those of the process that takes the next step;    *)
(* `other' holds the locals of the process that waits at an await.         *)
(***************************************************************************)
Locals ==
  [proc |-> proc, phase |-> phase, pc |-> pc, latestBlock |-> latestBlock,
   fromBlock |-> fromBlock, logs |-> logs, lastProcessedBlock |-> lastProcessedBlock,
   currentBlock |-> currentBlock, retries |-> retries, isProcessing |-> isProcessing,
   ev |-> ev, tx |-> tx, branch |-> branch, isProcessingDeposit |-> isProcessingDeposit,
   trace |-> trace, result |-> result, batches |-> batches]

\* The locals of a process that has just been started.
FreshLocals ==
  [proc |-> "running", phase |-> "start", pc |-> "none", latestBlock |-> 0,
   fromBlock |-> 0, logs |-> <<>>, lastProcessedBlock |-> 0,
   currentBlock |-> 0, retries |-> 0, isProcessing |-> FALSE,
   ev |-> 0, tx |-> NoDoc, branch |-> "none", isProcessingDeposit |-> FALSE,
   trace |-> <<>>, result |-> "none", batches |-> <<>>]

\* The scheduler gives the next step to the other process.
Switch ==
  /\ other # NoPeer
  /\ other' = Locals
  /\ proc' = other.proc
  /\ phase' = other.phase
  /\ pc' = other.pc
  /\ latestBlock' = other.latestBlock
  /\ fromBlock' = other.fromBlock
  /\ logs' = other.logs
  /\ lastProcessedBlock' = other.lastProcessedBlock
  /\ currentBlock' = other.currentBlock
  /\ retries' = other.retries
  /\ isProcessing' = other.isProcessing
  /\ ev' = other.ev
  /\ tx' = other.tx
  /\ branch' = other.branch
  /\ isProcessingDeposit' = other.isProcessingDeposit
  /\ trace' = other.trace
  /\ result' = other.result
  /\ batches' = other.batches
  /\ UNCHANGED <<chain, head, cfgStart, player, lastNonce, call, settle, extract, store, l2log, submitted, faults,
                 handed>>

\* One L1 transaction with one qualifying TopUp event.
TwoChains == { <<1>> }

InitTwo ==
  /\ chain \in TwoChains
  /\ head = 1
  /\ cfgStart = -1
  /\ store = [h \in TxHashes |-> NoDoc]
  /\ other = FreshLocals
  /\ settle = NoSettlement
  /\ player = NoPlayer
  /\ lastNonce = [h \in TxHashes |-> NoNonce]
  /\ call = NoCall
  /\ extract = NoExtraction
  /\ l2log = <<>>
  /\ submitted = [h \in TxHashes |-> 0]
  /\ proc = "running"
  /\ phase = "start"
  /\ pc = "none"
  /\ latestBlock = 0
  /\ fromBlock = 0
  /\ logs = <<>>
  /\ lastProcessedBlock = 0
  /\ currentBlock = 0
  /\ retries = 0
  /\ isProcessing = FALSE
  /\ ev = 0
  /\ tx = NoDoc
  /\ branch = "none"
  /\ isProcessingDeposit = FALSE
  /\ trace = <<>>
  /\ result = "none"
  /\ batches = <<>>
  /\ faults = 0
  /\ handed = {}

NextTwo ==
  \/ ServeStart \/ CreatePlayer \/ HistHead \/ HistBatch \/ HistLogs
  \/ Begin \/ SavePending \/ GetNonce \/ SaveNonce \/ SaveInProgress
  \/ MarkFailed \/ MarkCompleted \/ CheckDeposit
  \/ PdEnter \/ PdDeposit \/ PdMarkCompleted \/ PdMarkFailed \/ PdCatch
  \/ Switch

SpecTwo == InitTwo /\ [][NextTwo]_vars

(***************************************************************************)
(* The settlement poller (class Settlement of settle.js), after sections   *)
(* 3.2 and 4.5 of the specification.  The L2 makes the task bundles        *)
(* 1..MaxTasks ready one after the other.  The poller takes the bundles    *)
(* that are not confirmed in taskId order: it submits the bundle to the L1 *)
(* contract, records settleTxHash and the status submitted, awaits the     *)
(* receipt, and marks the bundle confirmed, or failed on a revert, to be   *)
(* retried; a bundle that is not confirmed blocks the ones after it.       *)
(***************************************************************************)
depositVars ==
  <<chain, head, cfgStart, player, lastNonce, call, other, extract, store, l2log, proc, phase, pc, latestBlock, fromBlock,
    logs, lastProcessedBlock, currentBlock, retries, isProcessing, ev, tx, branch,
    isProcessingDeposit, faults, handed, submitted, trace, result, batches>>

TaskIds == 1..MaxTasks

\* A variant of the poller's choice that takes the newest unconfirmed bundle.
NextBundleNewest(ready, status) ==
  LET open == {t \in 1..ready : status[t] # "confirmed"} IN
  IF open = {} THEN 0 ELSE CHOOSE t \in open : \A u \in open : u <= t

\* The bundle the poller takes next: the lowest taskId among the ready bundles
\* that are not confirmed, 0 when there is none.
NextBundle(ready, status) ==
  LET open == {t \in 1..ready : status[t] # "confirmed"} IN
  IF open = {} THEN 0 ELSE CHOOSE t \in open : \A u \in open : t <= u

\* The L2 has one more bundle ready to settle.
BundleReady ==
  /\ settle.ready < MaxTasks
  /\ settle' = [settle EXCEPT !.ready = @ + 1]
  /\ UNCHANGED depositVars

\* The poller takes the next bundle; an unseen bundle gets its record.
SettleFetch ==
  /\ settle.pc = "idle"
  /\ LET t == NextBundle(settle.ready, settle.status) IN
     /\ t # 0
     /\ settle' = [settle EXCEPT !.pc = "submit", !.cur = t,
                                 !.status[t] = IF @ = "none" THEN "unsubmitted" ELSE @]
  /\ UNCHANGED depositVars

\* The settlement transaction is sent to the L1 contract; settleTxHash and the
\* status submitted are recorded.
SettleSubmit ==
  /\ settle.pc = "submit"
  /\ settle' = [settle EXCEPT !.pc = "receipt",
                              !.status[settle.cur] = "submitted",
                              !.settleTxHash[settle.cur] = Len(settle.sent) + 1,
                              !.sent = Append(@, settle.cur)]
  /\ UNCHANGED depositVars

\* The receipt: success confirms the bundle, a revert marks it failed.
SettleReceipt ==
  /\ settle.pc = "receipt"
  /\ \/ settle' = [settle EXCEPT !.pc = "idle", !.status[settle.cur] = "confirmed"]
     \/ /\ settle.reverts < MaxReverts
        /\ settle' = [settle EXCEPT !.pc = "idle", !.status[settle.cur] = "failed",
                                    !.reverts = @ + 1]
  /\ UNCHANGED depositVars

NextSettle == BundleReady \/ SettleFetch \/ SettleSubmit \/ SettleReceipt

SpecSettle == Init /\ [][NextSettle]_vars

(***************************************************************************)
(* The service with config.startBlock set, to a block at, below or above   *)
(* the head.                                                               *)
(***************************************************************************)
ConfiguredEntry ==
  /\ chain \in Chains
  /\ head \in 0..SmallHeads
  /\ cfgStart \in 1..(SmallHeads + 1)
  /\ store = [h \in TxHashes |-> NoDoc]
  /\ other = NoPeer
  /\ settle = NoSettlement
  /\ player = NoPlayer
  /\ lastNonce = [h \in TxHashes |-> NoNonce]
  /\ call = NoCall
  /\ extract = NoExtraction
  /\ l2log = <<>>
  /\ submitted = [h \in TxHashes |-> 0]
  /\ proc = "running"
  /\ phase = "start"
  /\ pc = "none"
  /\ latestBlock = 0
  /\ fromBlock = 0
  /\ logs = <<>>
  /\ lastProcessedBlock = 0
  /\ currentBlock = 0
  /\ retries = 0
  /\ isProcessing = FALSE
  /\ ev = 0
  /\ tx = NoDoc
  /\ branch = "none"
  /\ isProcessingDeposit = FALSE
  /\ faults = 0
  /\ handed = {}
  /\ trace = <<>>
  /\ result = "none"
  /\ batches = <<>>

InitConfigured == Init \/ ConfiguredEntry

SpecConfigured == InitConfigured /\ [][Next]_vars

(***************************************************************************)
(* The extraction of the roots from a proof's instArr                      *)
(* (src/src/utils/extract_merkle_root.ts).  A string is the sequence of its *)
(* digits, most significant first.  A BN is the sequence of its hex        *)
(* digits, least significant first, without leading zeros; zero is <<>>.   *)
(***************************************************************************)
\* Unsigned 64-bit values as decimal strings, each with its 16 hex digits:
\* 0, 1, 2^63, 2^64 - 1 and the first four entries of the instArr of
\* demonstrateExtraction (lines 126-129).
U64Samples == <<
  [dec |-> <<0>>,
   hex |-> <<0, 0, 0, 0, 0, 0, 0, 0, 0, 0, 0, 0, 0, 0, 0, 0>>],
  [dec |-> <<1>>,
   hex |-> <<0, 0, 0, 0, 0, 0, 0, 0, 0, 0, 0, 0, 0, 0, 0, 1>>],
  [dec |-> <<9, 2, 2, 3, 3, 7, 2, 0, 3, 6, 8, 5, 4, 7, 7, 5, 8, 0, 8>>,
   hex |-> <<8, 0, 0, 0, 0, 0, 0, 0, 0, 0, 0, 0, 0, 0, 0, 0>>],
  [dec |-> <<1, 8, 4, 4, 6, 7, 4, 4, 0, 7, 3, 7, 0, 9, 5, 5, 1, 6, 1, 5>>,
   hex |-> <<15, 15, 15, 15, 15, 15, 15, 15, 15, 15, 15, 15, 15, 15, 15, 15>>],
  [dec |-> <<9, 1, 0, 4, 0, 0, 0, 0, 6, 8, 8, 8, 0, 9, 4, 4, 0, 4>>,
   hex |-> <<0, 12, 10, 2, 6, 3, 15, 11, 9, 6, 1, 3, 15, 10, 12, 4>>],
  [dec |-> <<1, 8, 1, 4, 2, 3, 5, 8, 6, 4, 3, 8, 1, 7, 7, 1, 0, 9, 0, 1>>,
   hex |-> <<15, 11, 12, 6, 9, 11, 1, 0, 7, 0, 7, 14, 0, 5, 3, 5>>],
  [dec |-> <<1, 1, 7, 4, 3, 0, 8, 3, 2, 9, 9, 3, 5, 8, 5, 0, 9, 3, 7, 0>>,
   hex |-> <<10, 2, 15, 7, 13, 0, 0, 11, 1, 2, 1, 6, 0, 9, 3, 10>>],
  [dec |-> <<5, 5, 7, 0, 6, 2, 4, 7, 4, 5, 9, 6, 1, 2, 9, 0, 2, 1>>,
   hex |-> <<0, 7, 11, 11, 1, 5, 5, 14, 8, 4, 0, 0, 9, 8, 15, 13>>] >>

\* Groups of four entries, by their place in U64Samples.
Quads == { <<1, 1, 1, 1>>, <<4, 4, 4, 4>>, <<2, 1, 3, 4>>, <<5, 6, 7, 8>> }

\* new BN(str, 10): the value of a decimal string.
RECURSIVE ParseDecimal(_, _)
ParseDecimal(str, acc) ==
  IF str = <<>> THEN acc ELSE ParseDecimal(Tail(str), MulSmall(acc, 10, Head(str)))

\* new BN(instArr[i], 10) for the 0-based index i; a missing entry is
\* undefined, which BN takes as 0.
BNAt(instArr, i) ==
  IF i + 1 \in DOMAIN instArr THEN ParseDecimal(instArr[i + 1], <<>>) ELSE <<>>

Reverse(q) == [i \in 1..Len(q) |-> q[Len(q) + 1 - i]]

\* A variant of the conversion without padding: bn.toString('hex').
toStringUnpadded(n, padding) == IF n = <<>> THEN <<0>> ELSE Reverse(n)

\* bn.toString('hex', padding): the hex digits, with zeros in front until the
\* length is a multiple of padding.
toString(n, padding) ==
  LET out == IF n = <<>> THEN <<0>> ELSE Reverse(n)
      pad == (padding - (Len(out) % padding)) % padding
  IN [i \in 1..pad |-> 0] \o out

\* Lines 25-38, 55-67, 84-96: the four entries from the 0-based index k on,
\* shifted, added and written as '0x' and hex digits.
Pack(instArr, k) ==
  LET v == add(add(add(shln(BNAt(instArr, k), 192), shln(BNAt(instArr, k + 1), 128)),
                   shln(BNAt(instArr, k + 2), 64)),
               BNAt(instArr, k + 3))
  IN [kind |-> "value", prefix |-> "0x", digits |-> toString(v, 64)]

\* A variant of the length checks that asks for one entry less.
MinLengthOneLess(k) == k + 3

\* Lines 20, 50, 79: the length the function that reads from index k asks for.
MinLength(k) == k + 4

\* throw new Error(...): no value is returned.
Threw == [kind |-> "threw", prefix |-> "", digits |-> <<>>]

extractAt(instArr, k) ==
  IF Len(instArr) < MinLength(k) THEN Threw ELSE Pack(instArr, k)

extractMerkleRoot(instArr) == extractAt(instArr, 0)
extractNewMerkleRoot(instArr) == extractAt(instArr, 4)
extractShaHash(instArr) == extractAt(instArr, 8)

\* The proofs looked at: up to MaxInst entries, taken from three groups of
\* four samples and one more entry.
InstArrs ==
  {[i \in 1..n |-> U64Samples[(q1 \o q2 \o q3 \o <<2, 3>>)[i]].dec] :
     n \in 0..MaxInst, q1 \in Quads, q2 \in Quads, q3 \in Quads}

InitExtract ==
  /\ chain = <<1, 3>>
  /\ head = 0
  /\ cfgStart = -1
  /\ store = [h \in TxHashes |-> NoDoc]
  /\ other = NoPeer
  /\ settle = NoSettlement
  /\ player = NoPlayer
  /\ lastNonce = [h \in TxHashes |-> NoNonce]
  /\ call = NoCall
  /\ extract \in {[NoExtraction EXCEPT !.instArr = a] : a \in InstArrs}
  /\ l2log = <<>>
  /\ submitted = [h \in TxHashes |-> 0]
  /\ proc = "running"
  /\ phase = "start"
  /\ pc = "none"
  /\ latestBlock = 0
  /\ fromBlock = 0
  /\ logs = <<>>
  /\ lastProcessedBlock = 0
  /\ currentBlock = 0
  /\ retries = 0
  /\ isProcessing = FALSE
  /\ ev = 0
  /\ tx = NoDoc
  /\ branch = "none"
  /\ isProcessingDeposit = FALSE
  /\ faults = 0
  /\ handed = {}
  /\ trace = <<>>
  /\ result = "none"
  /\ batches = <<>>

extractVars ==
  <<chain, head, cfgStart, player, lastNonce, call, other, settle, store, l2log, proc, phase, pc, latestBlock,
    fromBlock, logs, lastProcessedBlock, currentBlock, retries, isProcessing, ev, tx,
    branch, isProcessingDeposit, faults, handed, submitted, trace, result, batches>>

ExtractMerkleRoot ==
  /\ extract.merkleRoot = NotApplied
  /\ extract' = [extract EXCEPT !.merkleRoot = extractMerkleRoot(extract.instArr)]
  /\ UNCHANGED extractVars

ExtractNewMerkleRoot ==
  /\ extract.newMerkleRoot = NotApplied
  /\ extract' = [extract EXCEPT !.newMerkleRoot = extractNewMerkleRoot(extract.instArr)]
  /\ UNCHANGED extractVars

ExtractShaHash ==
  /\ extract.shaHash = NotApplied
  /\ extract' = [extract EXCEPT !.shaHash = extractShaHash(extract.instArr)]
  /\ UNCHANGED extractVars

NextExtract == ExtractMerkleRoot \/ ExtractNewMerkleRoot \/ ExtractShaHash

SpecExtract == InitExtract /\ [][NextExtract]_vars

(***************************************************************************)
(* An event delivered for a record that the service itself never leaves    *)
(* behind: in-progress or failed without nonce, or with a state outside    *)
(* the schema's enum.  The behaviours of Spec are joined by those of a     *)
(* process that starts on a store holding such a record for the            *)
(* transaction of the chain's first log.                                   *)
(***************************************************************************)
InconsistentDocs ==
  {[state |-> st, nonce |-> NoNonce, retryCount |-> 0, amount |-> 1] :
     st \in {"in-progress", "failed"}}
  \cup {[state |-> "unknown", nonce |-> n, retryCount |-> 0, amount |-> 1] :
          n \in {NoNonce, 0}}

InconsistentEntry ==
  /\ chain \in Chains
  /\ head \in 0..SmallHeads
  /\ cfgStart = -1
  /\ \E d \in InconsistentDocs :
       store = [h \in TxHashes |-> IF h = Log(chain[1]).txHash THEN d ELSE NoDoc]
  /\ other = NoPeer
  /\ settle = NoSettlement
  /\ player = NoPlayer
  /\ lastNonce = [h \in TxHashes |-> NoNonce]
  /\ call = NoCall
  /\ extract = NoExtraction
  /\ l2log = <<>>
  /\ submitted = [h \in TxHashes |-> 0]
  /\ proc = "running"
  /\ phase = "start"
  /\ pc = "none"
  /\ latestBlock = 0
  /\ fromBlock = 0
  /\ logs = <<>>
  /\ lastProcessedBlock = 0
  /\ currentBlock = 0
  /\ retries = 0
  /\ isProcessing = FALSE
  /\ ev = 0
  /\ tx = NoDoc
  /\ branch = "none"
  /\ isProcessingDeposit = FALSE
  /\ faults = 0
  /\ handed = {}
  /\ trace = <<>>
  /\ result = "none"
  /\ batches = <<>>

InitInconsistent == Init \/ InconsistentEntry

SpecInconsistent == InitInconsistent /\ [][Next]_vars

(***************************************************************************)
(* The service run against a chain of two L1 transactions whose TopUp      *)
(* events differ in their amount, so that L2 tells their deposits apart.   *)
(***************************************************************************)
NonceChains == { <<2, 3>>, <<4, 3>> }

InitNonces ==
  /\ chain \in NonceChains
  /\ head \in 0..SmallHeads
  /\ cfgStart = -1
  /\ store = [h \in TxHashes |-> NoDoc]
  /\ other = NoPeer
  /\ settle = NoSettlement
  /\ player = NoPlayer
  /\ lastNonce = [h \in TxHashes |-> NoNonce]
  /\ call = NoCall
  /\ extract = NoExtraction
  /\ l2log = <<>>
  /\ submitted = [h \in TxHashes |-> 0]
  /\ proc = "running"
  /\ phase = "start"
  /\ pc = "none"
  /\ latestBlock = 0
  /\ fromBlock = 0
  /\ logs = <<>>
  /\ lastProcessedBlock = 0
  /\ currentBlock = 0
  /\ retries = 0
  /\ isProcessing = FALSE
  /\ ev = 0
  /\ tx = NoDoc
  /\ branch = "none"
  /\ isProcessingDeposit = FALSE
  /\ faults = 0
  /\ handed = {}
  /\ trace = <<>>
  /\ result = "none"
  /\ batches = <<>>

SpecNonces == InitNonces /\ [][Next]_vars

(***************************************************************************)
(* createCommand as a function of its arguments: the behaviours start with  *)
(* the arguments of one call, which the call turns into the array it       *)
(* returns; createPlayer builds its command beside it.                     *)
(***************************************************************************)
\* n times the digit d.
Rep(d, n) == [i \in 1..n |-> d]

\* The k-th parameter of a list: 2^64 - 1, 0, 0x7b, 1, ... in turn.
ParamAt(i) == IF i % 4 = 1 THEN Rep(15, 16)
              ELSE IF i % 4 = 2 THEN <<>>
              ELSE IF i % 4 = 3 THEN <<11, 7>> ELSE <<1>>

\* The calls tried.  Nonces: 0, 1, 0xffff, 0x1234567, 2^48 - 1, 2^48 and
\* 2^52 - 1.  Opcodes: 0, 1 (CREATE_PLAYER), 0xa5, 255 and 256.  Parameters:
\* lists of 0, 1, 3, 254 and 255 entries (254 is the last that leaves the length
\* field within eight bits), and one list whose first entry is 2^64 + 1, which
\* does not fit a 64-bit word.
CommandCalls ==
  LET NonceSamples ==
        { <<>>, <<1>>, Rep(15, 4), <<7, 6, 5, 4, 3, 2, 1>>, Rep(15, 12),
          Rep(0, 12) \o <<1>>, Rep(15, 13) }
      OpcodeSamples == { <<>>, <<1>>, <<5, 10>>, Rep(15, 2), <<0, 0, 1>> }
      ParamSamples ==
        { [i \in 1..n |-> ParamAt(i)] : n \in {0, 1, 3, 254, 255} }
          \cup { << <<1>> \o Rep(0, 15) \o <<1>>, <<2>> >> }
  IN { [nonce |-> n, command |-> c, params |-> ps, words |-> <<>>, state |-> "none"] :
         n \in NonceSamples, c \in OpcodeSamples, ps \in ParamSamples }

\* One call of createCommand (lines 96-102).
CreateCommand ==
  /\ call.state = "none"
  /\ call' = [call EXCEPT !.words = createCommand(call.nonce, call.command, call.params),
                          !.state = "returned"]
  /\ UNCHANGED <<chain, head, cfgStart, player, lastNonce, other, settle, extract, store,
                 l2log, proc, phase, pc, latestBlock, fromBlock, logs, lastProcessedBlock,
                 currentBlock, retries, isProcessing, ev, tx, branch, isProcessingDeposit,
                 faults, handed, submitted, trace, result, batches>>

InitCommand ==
  /\ chain = <<1, 3>>
  /\ head = 0
  /\ cfgStart = -1
  /\ store = [h \in TxHashes |-> NoDoc]
  /\ other = NoPeer
  /\ settle = NoSettlement
  /\ player = NoPlayer
  /\ lastNonce = [h \in TxHashes |-> NoNonce]
  /\ call \in CommandCalls
  /\ extract = NoExtraction
  /\ l2log = <<>>
  /\ submitted = [h \in TxHashes |-> 0]
  /\ proc = "running"
  /\ phase = "start"
  /\ pc = "none"
  /\ latestBlock = 0
  /\ fromBlock = 0
  /\ logs = <<>>
  /\ lastProcessedBlock = 0
  /\ currentBlock = 0
  /\ retries = 0
  /\ isProcessing = FALSE
  /\ ev = 0
  /\ tx = NoDoc
  /\ branch = "none"
  /\ isProcessingDeposit = FALSE
  /\ faults = 0
  /\ handed = {}
  /\ trace = <<>>
  /\ result = "none"
  /\ batches = <<>>

NextCommand == CreateCommand \/ ServeStart \/ CreatePlayer

SpecCommand == InitCommand /\ [][NextCommand]_vars

TypeOK ==
  /\ proc \in {"running", "crashed", "exit1"}
  /\ \A h \in TxHashes : store[h].state \in {"absent", "pending", "in-progress", "completed", "failed"}
  /\ faults \in 0..MaxFaults
  /\ result \in {"none", "ok", "threw"}
  /\ handed \subseteq LogIds
  /\ submitted \in [TxHashes -> 0..(MaxRetry + 1)]

(***************************************************************************)
(* Properties of the deposit service.                                      *)
(***************************************************************************)
\* The deposits L2 has credited for the L1 transaction h, and for the event id.
Credits(h) == Cardinality({n \in DOMAIN l2log : Log(l2log[n]).txHash = h})
CreditsOfLog(id) == Cardinality({n \in DOMAIN l2log : l2log[n] = id})

\* An event the service has to credit: a supported token and at least one
\* whole unit.
Qualifying(id) ==
  /\ getTokenIndex(Log(id).l1token, Tokens) # -1
  /\ AmountInEther(Log(id).amount) >= 1

\* C1: for every L1 transaction hash, whatever the deliveries, the failures of
\* L2 and of the store and the crashes, L2 has credited at most one deposit
\* for that hash.
C1_AtMostOncePerTxHash == \A h \in TxHashes : Credits(h) <= 1

\* C2: every qualifying TopUp event is credited exactly once on L2: never
\* twice, and once a delivery of the event has returned without an error the
\* event has its credit; two events of one L1 transaction count separately.
C2_ExactlyOncePerEvent ==
  /\ \A id \in LogIds : CreditsOfLog(id) <= 1
  /\ result = "ok" /\ Qualifying(ev) => CreditsOfLog(ev) = 1

\* C3: no deposit is lost silently: a record of amount >= 1 becomes completed
\* only with a credit of its own on L2.  In particular, when checkDeposit
\* answers non-null for a record read as in-progress or failed, the deposit L2
\* holds under the record's nonce is one submitted for that record's txHash,
\* and the txHash has a credit.
C3_NoSilentLoss ==
  pc = "markCompleted" /\ branch = "retry" =>
    /\ Log(l2log[tx.nonce + 1]).txHash = Log(ev).txHash
    /\ Credits(Log(ev).txHash) >= 1

\* C4: when the process stops after L2 has accepted a deposit and before the
\* record is marked completed, the record found on the next delivery carries
\* the nonce of that deposit in a state that is verified first (the claim
\* says in-progress; failed is verified the same way and is allowed here), so
\* that no second admin.deposit call is made for a deposit L2 already holds.
C4_CrashBetweenSubmitAndMark ==
  /\ \A n \in DOMAIN l2log :
       LET h == Log(l2log[n]).txHash IN
       proc # "running" /\ store[h].state # "completed" =>
         store[h].state \in {"in-progress", "failed"} /\ store[h].nonce = n - 1
  /\ pc = "pdDeposit" => \A n \in DOMAIN l2log : l2log[n] # ev

RecordStates == {"pending", "in-progress", "completed", "failed"}

\* C5: completed is terminal.  A completed record never changes again (state,
\* nonce, retryCount); the conditional update of updateTxState leaves it as
\* it is whatever the target state; and a delivery of an event whose record
\* is read as completed returns without an L2 call or a store write.
C5_CompletedTerminal ==
  /\ [][\A h \in TxHashes : store[h].state = "completed" => store'[h] = store[h]]_vars
  /\ [](\A h \in TxHashes, s \in RecordStates :
          store[h].state = "completed" => UpdateOne(store, h, s) = store)
  /\ [][pc = "begin" /\ store[Log(ev).txHash].state = "completed" =>
          /\ store' = store /\ l2log' = l2log
          /\ trace' = <<>> /\ pc' \in {"begin", "none"}]_vars

\* A credited event is delivered again while its record is completed.
C5_Witness ==
  /\ pc = "begin"
  /\ store[Log(ev).txHash].state = "completed"
  /\ CreditsOfLog(ev) = 1

\* The changes of persisted state in a step all lie in the edge set E.
WalksOnly(E) ==
  \A h \in TxHashes :
    store'[h].state # store[h].state => <<store[h].state, store'[h].state>> \in E

\* The edges the claim C6 names.
ClaimedEdges ==
  { <<"absent", "pending">>, <<"pending", "in-progress">>,
    <<"in-progress", "completed">>, <<"in-progress", "failed">>,
    <<"failed", "in-progress">> }

\* The edges the code walks: a dust event creates its record completed (lines
\* 234-246) or completes a pending one (lines 306-311); a failing save of
\* in-progress marks a pending record failed (lines 317-321); a failed record
\* is verified or resubmitted as it is and goes to completed (lines 332, 174).
WalkedEdges ==
  { <<"absent", "pending">>, <<"absent", "completed">>,
    <<"pending", "in-progress">>, <<"pending", "completed">>, <<"pending", "failed">>,
    <<"in-progress", "completed">>, <<"in-progress", "failed">>,
    <<"failed", "completed">> }

C7_NonceSet ==
  \A h \in TxHashes :
    store[h].state \in {"in-progress", "failed"} => store[h].nonce # NoNonce

\* A delivery has thrown and left its record failed, and another record is
\* in-progress or failed as well.
C7_Witness ==
  /\ result = "threw"
  /\ store[Log(ev).txHash].state = "failed"
  /\ \E h \in TxHashes \ {Log(ev).txHash} : store[h].state \in {"in-progress", "failed"}

\* C8: at the moment an L2 deposit submission is issued for a txHash,
\* resubmissions from a record read as failed included, the store holds that
\* record with the nonce being submitted and with state in-progress.
C8_DurableBeforeSubmit ==
  pc = "pdDeposit" =>
    /\ store[Log(ev).txHash].nonce = tx.nonce
    /\ store[Log(ev).txHash].state = "in-progress"

\* serve() has assigned lastProcessedBlock (line 463) and is polling.
Polling == proc = "running" /\ phase \in {"timer", "pollHead", "pollBatch", "pollLogs"}

\* C9: the scanner never holds a lastProcessedBlock, its initial value after
\* the sweep included, that is past a block with a TopUp log of the scanned
\* range (here: from block 0 on) that has not been handed to
\* processTopUpEvent.  Stated for the behaviours without any failure or
\* crash, and counting a log the sweep skips because its record is completed
\* as handed.
C9_CursorBehindHandedEvents ==
  faults = 0 /\ Polling =>
    \A i \in DOMAIN chain :
      Log(chain[i]).blockNumber <= lastProcessedBlock =>
        chain[i] \in handed \/ store[Log(chain[i]).txHash].state = "completed"

\* The getLogs ranges bs cover the blocks start..last exactly once, in
\* ascending order, in batches of at most batchSize blocks.
Covers(bs, start, last) ==
  /\ Len(bs) >= 1
  /\ bs[1][1] = start
  /\ bs[Len(bs)][2] = last
  /\ \A i \in DOMAIN bs : bs[i][1] <= bs[i][2] /\ bs[i][2] - bs[i][1] + 1 <= batchSize
  /\ \A i \in 1..(Len(bs) - 1) : bs[i + 1][1] = bs[i][2] + 1

\* The sweep has read the head, was not skipped, and its loop has ended.
SweepDone ==
  /\ phase = "pollInit"
  /\ latestBlock = head
  /\ HistStartBlock(cfgStart, latestBlock) # -1

\* C10: when a sweep runs from start to head, start <= head, the getLogs
\* ranges it issues cover start..head exactly once, ascending, each at most
\* 25000 blocks; head is included for every start and head, start = head and
\* head - start a multiple of 25000 included.  Stated for the sweeps whose
\* read of the head did not fail.
C10_SweepCoversRange ==
  SweepDone /\ faults = 0 =>
    Covers(batches, HistStartBlock(cfgStart, latestBlock), latestBlock)

\* C11: single writer.  A deposit submission is in flight only under the
\* flag isProcessingDeposit, and only a performDeposit call that found the
\* flag clear and set it reaches admin.deposit; a call made while the flag is
\* set ends the process with exit code 1 before any L2 call or store write.
C11_SingleWriter ==
  /\ [](pc = "pdDeposit" => isProcessingDeposit)
  /\ [][pc = "pdEnter" /\ pc' = "pdDeposit" =>
          ~isProcessingDeposit /\ isProcessingDeposit']_vars
  /\ [][pc = "pdEnter" /\ isProcessingDeposit =>
          /\ store' = store /\ l2log' = l2log
          /\ \/ pc' = "pdEnter" /\ proc' = "running" /\ head' # head
             \/ pc' = "none" /\ proc' \in {"exit1", "crashed"}]_vars

\* performDeposit was called while the flag was set and the process has ended
\* with exit code 1, nothing submitted.
C11_Witness ==
  /\ proc = "exit1"
  /\ ev # 0
  /\ store[Log(ev).txHash].state \in {"in-progress", "failed"}
  /\ l2log = <<>>
  /\ trace \in {<<"checkDeposit", "getNonce", "save">>, <<"save", "getNonce", "save", "save">>}

\* A polling round is executing.
InRound == phase \in {"pollHead", "pollBatch", "pollLogs"}

\* C12: polling rounds never overlap.  A round executes only under
\* isProcessing, and only a poll() call that found isProcessing clear and set
\* it starts one; a poll() call made while isProcessing is set is skipped: it
\* reads no head, fetches no logs, hands over no event and leaves
\* lastProcessedBlock as it is, and no round is queued.
C12_RoundsNeverOverlap ==
  /\ [](InRound => isProcessing)
  /\ [][~InRound /\ InRound' => phase = "timer" /\ ~isProcessing /\ isProcessing']_vars
  /\ [][phase = "timer" /\ isProcessing /\ proc' = "running" =>
          /\ phase' = "timer" /\ isProcessing'
          /\ pc' = "none" /\ trace' = <<>>
          /\ UNCHANGED <<lastProcessedBlock, currentBlock, logs, batches, store, l2log>>]_vars

\* The timer has fired while isProcessing was set and there are new blocks:
\* the round was skipped.
C12_Witness ==
  /\ proc = "running"
  /\ phase = "timer"
  /\ isProcessing
  /\ head > lastProcessedBlock

\* The l1token of the log is no token_uid of allTokens().
UnknownToken(id) == \A i \in DOMAIN Tokens : Tokens[i] # Log(id).l1token

\* C13: a delivery of an event with an unknown token writes or modifies no
\* record and makes no L2 call, whatever the store holds for its txHash; when
\* the call has ended, no store write and no getNonce, checkDeposit or
\* deposit call was made in it.
C13_UnknownToken ==
  /\ [][pc = "begin" /\ UnknownToken(ev) =>
          store' = store /\ l2log' = l2log /\ trace' = <<>> /\ pc' \in {"begin", "none"}]_vars
  /\ [](pc # "none" /\ UnknownToken(ev) => pc = "begin")
  /\ [](result # "none" /\ UnknownToken(ev) => trace = <<>>)

\* An event with an unknown token was delivered while the record of its
\* txHash was in-progress or failed, and the call has returned.
C13_Witness ==
  /\ result = "ok"
  /\ UnknownToken(ev)
  /\ store[Log(ev).txHash].state \in {"in-progress", "failed"}

\* 10^18 - 1 wei and 10^18 wei, in limbs.
WeiBelowOne == <<0, 999999999, 999999999>>
WeiOne == <<1, 0, 0>>

\* The event ev of a supported token is being delivered and no record of its
\* txHash exists.
Unseen ==
  /\ pc = "begin"
  /\ ~UnknownToken(ev)
  /\ store[Log(ev).txHash].state = "absent"

\* The step ends the call's current await inside the running process.
CallStep == proc' = "running" /\ pc' # pc

DepositCalls == Cardinality({i \in DOMAIN trace : trace[i] = "deposit"})

\* C15: verify first.  For a record read as in-progress or failed with a
\* nonce, checkDeposit with the stored nonce and the event's arguments is the
\* first call.  On a non-null answer the record is marked completed and no
\* deposit is submitted.  On null, retryCount is incremented by one, a fresh
\* nonce is fetched and both are persisted, and exactly one resubmission is
\* made, with the fresh nonce.
C15_VerifyFirst ==
  /\ [](pc = "checkDeposit" =>
          /\ branch = "retry" /\ trace = <<>>
          /\ tx.nonce # NoNonce /\ tx.nonce = store[Log(ev).txHash].nonce)
  /\ [](branch = "retry" /\ trace # <<>> => trace[1] = "checkDeposit" /\ DepositCalls <= 1)
  /\ [][pc = "checkDeposit" /\ CallStep =>
          \/ result' = "threw"
          \/ /\ checkDeposit(l2log, tx.nonce, Sig(ev))
             /\ pc' = "markCompleted"
          \/ /\ ~checkDeposit(l2log, tx.nonce, Sig(ev))
             /\ pc' = "getNonce" /\ tx'.retryCount = tx.retryCount + 1]_vars
  /\ [][pc = "markCompleted" /\ branch = "retry" /\ CallStep =>
          /\ result' = "ok" /\ l2log' = l2log
          /\ trace' = <<"checkDeposit", "updateOne">>
          /\ faults' = faults => store'[Log(ev).txHash].state = "completed"]_vars
  /\ [][pc = "saveNonce" /\ branch = "retry" /\ CallStep =>
          \/ result' = "threw" /\ store' = store
          \/ /\ pc' = "pdEnter"
             /\ store'[Log(ev).txHash].retryCount = store[Log(ev).txHash].retryCount + 1
             /\ store'[Log(ev).txHash].nonce = Len(l2log)]_vars
  /\ [](pc = "pdDeposit" /\ branch = "retry" =>
          /\ trace = <<"checkDeposit", "getNonce", "save">>
          /\ tx.nonce = Len(l2log)
          /\ store[Log(ev).txHash].nonce = tx.nonce)
  /\ [](result = "ok" /\ Len(trace) > 2 /\ trace[1] = "checkDeposit" =>
          trace = <<"checkDeposit", "getNonce", "save", "deposit", "updateOne">>)

\* A record read as failed was not found on L2 and has been resubmitted once,
\* with the fresh nonce, and L2 has accepted it.
C15_Witness ==
  /\ pc = "pdMarkCompleted" /\ branch = "retry"
  /\ tx.state = "failed"
  /\ DepositCalls = 1
  /\ l2log[tx.nonce + 1] = ev

\* The service has ended itself (process.exit(1), or serve() rejected at line
\* 463), or the record has used up the retries the model follows.
NoLongerServed(h) ==
  \/ proc # "running"
  \/ phase = "halted"
  \/ store[h].retryCount >= MaxRetry

\* C16: a record left failed or in-progress by a delivery that has ended is
\* revisited by the running service without a restart: its event is handed
\* to processTopUpEvent again, and the record reaches completed.
C16_Revisited ==
  \A h \in TxHashes :
    (pc = "none" /\ store[h].state \in {"failed", "in-progress"})
      ~> (store[h].state = "completed" \/ NoLongerServed(h))

\* C17: marking completed is idempotent.  For every record of the store, the
\* update of updateTxState(txHash, 'completed') applied twice in a row leaves
\* the store as one application does, and applied to a completed record it
\* changes nothing.
C17_MarkCompletedIdempotent ==
  \A h \in TxHashes :
    LET once == UpdateOne(store, h, "completed") IN
    /\ UpdateOne(once, h, "completed") = once
    /\ store[h].state = "completed" => once = store

\* updateTxState(txHash, 'completed') has just been applied to a record that
\* had been retried.
C17_Witness ==
  /\ pc = "none" /\ ev # 0 /\ result = "ok"
  /\ trace = <<"checkDeposit", "getNonce", "save", "deposit", "updateOne">>
  /\ store[Log(ev).txHash].state = "completed"
  /\ store[Log(ev).txHash].retryCount >= 1

\* The historical sweep is running.
InSweep == proc = "running" /\ phase \in {"histHead", "histBatch", "histLogs"}

\* Every log of the chain has been handed over before, or skipped because its
\* record is completed: an earlier run has gone over the same logs.
SweptBefore ==
  \A i \in DOMAIN chain :
    chain[i] \in handed \/ store[Log(chain[i]).txHash].state = "completed"

\* An earlier run has left nothing to do: every log of the chain has a
\* completed record or an unknown token.
AllSettled ==
  \A i \in DOMAIN chain :
    store[Log(chain[i]).txHash].state = "completed" \/ UnknownToken(chain[i])

\* C18 as stated: a sweep over logs that a run has gone over before changes
\* neither the records nor the L2 credits, whatever states the earlier run
\* left.
C18_SweepTwice ==
  [][InSweep /\ SweptBefore => store' = store /\ l2log' = l2log]_vars

\* C18 amended: a sweep over logs that an earlier run has left with every
\* record completed (or without a record, for an unknown token) changes
\* neither the records nor the L2 credits, makes no store write and no L2
\* call, and hands over no event whose record is completed.  (A call is either
\* not running or at its entry: the call that completes the last record is
\* itself still part of the earlier work.)
C18_SweepTwice_Amended ==
  [][InSweep /\ AllSettled /\ pc \in {"none", "begin"} =>
       /\ store' = store /\ l2log' = l2log /\ trace' \in {trace, <<>>}
       /\ pc' = "begin" => UnknownToken(ev')]_vars

\* A later sweep has fetched the logs of a chain whose deposits are all
\* credited and completed.
C18_Witness ==
  /\ InSweep /\ AllSettled
  /\ phase = "histLogs" /\ pc = "none"
  /\ logs = chain
  /\ Len(l2log) >= 1

\* C19: retryCount of a record never decreases and grows by one at a time.
\* The save that precedes a resubmission for a record read as in-progress or
\* failed increases the stored retryCount by exactly one, and the record is
\* not written again before admin.deposit is called.  Every deposit submission
\* after the first for a txHash is preceded by a persisted increment: when the
\* n-th submission is about to be made the stored retryCount is at least
\* n - 1.
C19_RetryCount ==
  /\ [][\A h \in TxHashes :
          store'[h].retryCount \in {store[h].retryCount, store[h].retryCount + 1}]_vars
  /\ [][pc = "saveNonce" /\ branch = "retry" /\ pc' = "pdEnter" =>
          store'[Log(ev).txHash].retryCount = store[Log(ev).txHash].retryCount + 1]_vars
  /\ [](pc \in {"pdEnter", "pdDeposit"} /\ branch = "retry" =>
          /\ tx.retryCount >= 1
          /\ store[Log(ev).txHash].retryCount = tx.retryCount)
  /\ [](\A h \in TxHashes : submitted[h] <= store[h].retryCount + 1)
  /\ [](pc = "pdDeposit" => submitted[Log(ev).txHash] <= store[Log(ev).txHash].retryCount)

\* A second deposit has been submitted for a txHash, after its retryCount was
\* persisted as 1.
C19_Witness ==
  /\ \E h \in TxHashes : submitted[h] = 2 /\ store[h].retryCount = 1
  /\ pc \in {"pdMarkCompleted", "pdCatch", "pdMarkFailed"}
  /\ branch = "retry"

\* The record of the event being delivered is in-progress or failed without a
\* nonce, or its state is none of pending, in-progress, completed and failed.
Inconsistent(doc) ==
  \/ doc.state \in {"in-progress", "failed"} /\ doc.nonce = NoNonce
  \/ doc.state \notin {"absent", "pending", "in-progress", "completed", "failed"}

\* C20: fatal inconsistency.  When an event with a supported token is delivered
\* for such a record and the reads of the token list and of the record succeed,
\* the process ends with exit code 1 and has made no checkDeposit, getNonce or
\* deposit call and no store write.
C20_FatalInconsistency ==
  [][/\ proc = "running" /\ pc = "begin"
     /\ Inconsistent(store[Log(ev).txHash])
     /\ ~UnknownToken(ev)
     /\ pc' # pc /\ faults' = faults
     => /\ proc' = "exit1"
        /\ store' = store /\ l2log' = l2log /\ trace' = <<>>]_vars

\* C21: every state transition the machine writes is conditional on the state
\* it read.  With two processes on one store, the save of in-progress by a
\* process that read the record as pending is not applied once the other
\* process has moved the record on, and no txHash is credited twice, also
\* when no call fails.
C21_ConditionalTransitions ==
  /\ [][faults' = 0 /\ pc = "saveInProgress" /\ store[Log(ev).txHash].state # "pending"
          => store'[Log(ev).txHash].state = store[Log(ev).txHash].state]_vars
  /\ [](faults = 0 => \A h \in TxHashes : Credits(h) <= 1)

\* C22: shutdown is cooperative.  A shutdown request ends the process only
\* between polling rounds, when no event is being processed and no submission
\* is in flight, and the process ends with exit code 0.
C22_CooperativeShutdown ==
  [][proc = "running" /\ proc' \notin {"running", "crashed", "exit1"} =>
       /\ proc' = "exit0"
       /\ pc = "none"
       /\ ~InRound]_vars

\* C23: settlement order.  The bundles are submitted to the L1 contract in
\* ascending taskId order: when a bundle is submitted, every bundle with a
\* lower taskId is confirmed, and no bundle with a higher taskId has been
\* submitted before it.
C23_SettlementOrder ==
  /\ [][settle'.sent # settle.sent =>
          LET b == settle'.sent[Len(settle'.sent)] IN
          \A a \in TaskIds : a < b => settle.status[a] = "confirmed"]_vars
  /\ [](\A i, j \in DOMAIN settle.sent : i <= j => settle.sent[i] <= settle.sent[j])

\* Bundles 1 and 2 were ready together; 1 was reverted once, submitted again
\* and confirmed, and then 2 was submitted.
C23_Witness ==
  /\ settle.sent = <<1, 1, 2>>
  /\ settle.status[1] = "confirmed"
  /\ settle.status[2] = "submitted"
  /\ settle.ready >= 2

\* C24: when the configured startBlock is greater than the head the sweep
\* reads, the sweep is skipped: the step that reads the head leads straight to
\* the set-up of the tail poll, with no getLogs query, no event handed over
\* and no record changed, and the set-up of the poll follows.
C24_SweepSkipped ==
  /\ [][/\ proc = "running" /\ phase = "histHead"
        /\ cfgStart # -1 /\ cfgStart > head
        /\ phase' # phase /\ faults' = faults
        => /\ phase' = "pollInit"
           /\ batches' = <<>> /\ logs' = logs /\ pc' = "none"
           /\ handed' = handed /\ store' = store /\ l2log' = l2log]_vars
  /\ [](phase \in {"histBatch", "histLogs"} /\ cfgStart # -1 => cfgStart <= latestBlock)

\* The sweep was skipped on a chain that has TopUp logs, and the set-up of the
\* poll is next.
C24_Witness ==
  /\ proc = "running" /\ phase = "pollInit"
  /\ cfgStart # -1 /\ cfgStart > latestBlock /\ latestBlock = head
  /\ getLogs(chain, 0, head) # <<>>
  /\ batches = <<>> /\ handed = {} /\ faults = 0

\* A poll attempt is over and the process goes on: the attempt completed, or
\* threw into the catch of lines 525-534.
AttemptEnds ==
  /\ proc = "running" /\ proc' = "running"
  /\ phase \in {"pollBatch", "pollLogs"}
  /\ phase' \in {"pollHead", "timer"}

\* The last step of an attempt that completed: every sub-batch was fetched and
\* every log handed over.
AttemptCompletes == AttemptEnds /\ phase = "pollLogs" /\ pc = "none" /\ logs = <<>>

\* C25 as stated: when the tail scanner received 0 logs for a sub-batch, the
\* cursor is at or past that sub-batch's toBlock when the attempt is over.
C25_EmptyBatchAdvances ==
  [][AttemptEnds =>
       \A i \in DOMAIN batches :
         getLogs(chain, batches[i][1], batches[i][2]) = <<>>
           => lastProcessedBlock' >= batches[i][2]]_vars

\* C25 amended: the cursor moves once per attempt, not per sub-batch.  An
\* attempt that completes moves lastProcessedBlock to currentBlock, which is
\* the toBlock of its last sub-batch, whether the sub-batches returned logs or
\* none; an attempt that throws leaves lastProcessedBlock where it was, also
\* behind the sub-batches that returned 0 logs.
C25_EmptyBatchAdvances_Amended ==
  /\ [][AttemptCompletes =>
          /\ batches # <<>>
          /\ batches[Len(batches)][2] = currentBlock
          /\ lastProcessedBlock' = currentBlock]_vars
  /\ [][AttemptEnds /\ ~AttemptCompletes => lastProcessedBlock' = lastProcessedBlock]_vars

\* A round of two sub-batches that both returned 0 logs has moved the cursor
\* to the toBlock of the second.
C25_Witness ==
  /\ proc = "running" /\ phase = "timer" /\ ~isProcessing
  /\ Len(batches) = 2
  /\ batches[1][1] >= 1
  /\ \A i \in DOMAIN batches : getLogs(chain, batches[i][1], batches[i][2]) = <<>>
  /\ lastProcessedBlock = batches[2][2]
  /\ lastProcessedBlock = head

\* C26: extraction fails with a thrown error, and returns no value, when
\* instArr is too short: extractMerkleRoot below 4 entries, extractNewMerkleRoot
\* below 8, extractShaHash below 12.  From that length on each returns a value.
C26_ShortInstArr ==
  LET n == Len(extract.instArr) IN
  /\ extract.merkleRoot # NotApplied =>
       extract.merkleRoot.kind = IF n < 4 THEN "threw" ELSE "value"
  /\ extract.newMerkleRoot # NotApplied =>
       extract.newMerkleRoot.kind = IF n < 8 THEN "threw" ELSE "value"
  /\ extract.shaHash # NotApplied =>
       extract.shaHash.kind = IF n < 12 THEN "threw" ELSE "value"
  /\ \A r \in {extract.merkleRoot, extract.newMerkleRoot, extract.shaHash} :
       r.kind = "threw" => r.digits = <<>> /\ r.prefix = ""

\* All three functions were applied to an instArr of 11 entries: two returned
\* and extractShaHash threw.
C26_Witness ==
  /\ Len(extract.instArr) = 11
  /\ extract.merkleRoot.kind = "value" /\ extract.newMerkleRoot.kind = "value"
  /\ extract.shaHash.kind = "threw"

\* The 16 hex digits of an unsigned 64-bit entry given as a decimal string.
Hex16(str) ==
  LET i == CHOOSE j \in DOMAIN U64Samples : U64Samples[j].dec = str IN U64Samples[i].hex

\* (inst[k]<<192)|(inst[k+1]<<128)|(inst[k+2]<<64)|inst[k+3] as 64 hex digits:
\* the four entries side by side, 16 digits each.
Limbs(instArr, k) ==
  Hex16(instArr[k + 1]) \o Hex16(instArr[k + 2]) \o Hex16(instArr[k + 3]) \o Hex16(instArr[k + 4])

\* C27: for an instArr of at least 12 unsigned 64-bit entries each function
\* returns '0x' followed by exactly 64 hex digits, zero-padded, which encode
\* (inst[k]<<192)|(inst[k+1]<<128)|(inst[k+2]<<64)|inst[k+3] for k = 0, 4, 8.
C27_PackedRoots ==
  Len(extract.instArr) >= 12 =>
    /\ extract.merkleRoot # NotApplied =>
         /\ extract.merkleRoot.prefix = "0x"
         /\ Len(extract.merkleRoot.digits) = 64
         /\ extract.merkleRoot.digits = Limbs(extract.instArr, 0)
    /\ extract.newMerkleRoot # NotApplied =>
         /\ extract.newMerkleRoot.prefix = "0x"
         /\ Len(extract.newMerkleRoot.digits) = 64
         /\ extract.newMerkleRoot.digits = Limbs(extract.instArr, 4)
    /\ extract.shaHash # NotApplied =>
         /\ extract.shaHash.prefix = "0x"
         /\ Len(extract.shaHash.digits) = 64
         /\ extract.shaHash.digits = Limbs(extract.instArr, 8)

\* The three functions were applied to the first twelve entries of the
\* instArr of demonstrateExtraction's kind: a first group with a leading zero
\* digit, then 2^64 - 1 four times, then 1, 0, 2^63, 2^64 - 1.
C27_Witness ==
  /\ Len(extract.instArr) >= 12
  /\ extract.instArr[1] = U64Samples[5].dec
  /\ extract.instArr[5] = U64Samples[4].dec
  /\ extract.instArr[9] = U64Samples[2].dec
  /\ extract.merkleRoot.kind = "value" /\ extract.merkleRoot.digits[1] = 0
  /\ extract.newMerkleRoot.kind = "value" /\ extract.newMerkleRoot.digits[64] = 15
  /\ extract.shaHash.kind = "value" /\ extract.shaHash.digits[64] = 15

\* The blocks of a sequence of logs are in ascending order.
Ascending(ls) ==
  \A i, j \in DOMAIN ls : i <= j => Log(ls[i]).blockNumber <= Log(ls[j]).blockNumber

\* C28: in a poll attempt the sub-batches queried are consecutive,
\* non-overlapping, ascending ranges of at most 25000 blocks; when the last is
\* fetched they cover exactly the blocks lastProcessedBlock + 1 .. currentBlock,
\* currentBlock being the head the attempt read.  The logs of the range are
\* handed to processTopUpEvent in ascending block order, one at a time: a call
\* begins only when no call is running, for the first log not yet handed over.
C28_PollBatches ==
  /\ [](proc = "running" /\ phase \in {"pollBatch", "pollLogs"} =>
          /\ \A i \in DOMAIN batches :
               /\ batches[i][1] <= batches[i][2]
               /\ batches[i][2] - batches[i][1] + 1 <= 25000
               /\ batches[i][2] <= currentBlock
          /\ \A i \in 1..(Len(batches) - 1) : batches[i + 1][1] = batches[i][2] + 1
          /\ batches # <<>> => batches[1][1] = lastProcessedBlock + 1
          /\ currentBlock <= head)
  /\ [](proc = "running" /\ phase = "pollLogs" =>
          /\ batches # <<>>
          /\ batches[Len(batches)][2] = currentBlock
          /\ Ascending(logs)
          /\ \A i \in DOMAIN logs : InRange(logs[i], lastProcessedBlock + 1, currentBlock)
          /\ pc # "none" => logs # <<>> /\ ev = Head(logs))
  /\ [][proc = "running" /\ phase = "pollBatch" /\ phase' = "pollLogs" =>
          logs = getLogs(chain, lastProcessedBlock + 1, currentBlock)]_vars
  /\ [][phase = "pollLogs" /\ pc' = "begin" /\ pc # "begin" =>
          pc = "none" /\ ev' = Head(logs) /\ logs' = logs]_vars
  /\ [][phase = "pollLogs" /\ phase' = "pollLogs" /\ logs' # logs =>
          pc' = "none" /\ logs' = Tail(logs)]_vars

\* An attempt of two sub-batches found two logs in two blocks; the call for
\* the first has returned and the second log is next.
C28_Witness ==
  /\ proc = "running" /\ phase = "pollLogs" /\ pc = "none"
  /\ Len(batches) = 2
  /\ Len(logs) = 1 /\ ev # 0 /\ ev # Head(logs)
  /\ Log(ev).blockNumber < Log(Head(logs)).blockNumber
  /\ result = "ok"


\* The step on which an attempt throws: the head read or a getLogs sub-batch
\* fails, or processTopUpEvent throws for a log.
AttemptThrows ==
  /\ InRound /\ proc' = "running"
  /\ \/ pc = "none" /\ faults' = faults + 1
     \/ pc # "none" /\ pc' = "none" /\ result' = "threw"

\* C29: a polling round makes at most 3 attempts.  While a round runs the flag
\* isProcessing is set and between 1 and 3 attempts are left; only a throwing
\* attempt uses one up.  An attempt that throws at the head read, at a getLogs
\* sub-batch or in processTopUpEvent leaves lastProcessedBlock alone and, while
\* attempts are left, starts again at the head read with nothing collected;
\* when the third attempt throws the round ends with lastProcessedBlock
\* unchanged and isProcessing cleared, and the next round starts from the same
\* cursor with 3 attempts.
C29_BoundedRetries ==
  /\ [](InRound => isProcessing /\ retries \in 1..PollRetries)
  /\ [][InRound /\ InRound' /\ ~AttemptThrows => retries' = retries]_vars
  /\ [][AttemptThrows =>
          /\ retries' = retries - 1
          /\ lastProcessedBlock' = lastProcessedBlock
          /\ logs' = <<>>
          /\ IF retries = 1
             THEN phase' = "timer" /\ ~isProcessing'
             ELSE phase' = "pollHead" /\ isProcessing']_vars
  /\ [][proc = "running" /\ phase = "timer" /\ InRound' =>
          /\ phase' = "pollHead"
          /\ retries' = PollRetries
          /\ lastProcessedBlock' = lastProcessedBlock]_vars

\* All three attempts of a round have thrown, the last one in
\* processTopUpEvent for a log past the cursor: the round is over and the
\* cursor still lies before that log.
C29_Witness ==
  /\ proc = "running" /\ phase = "timer" /\ pc = "none"
  /\ ~isProcessing /\ retries = 0
  /\ ev # 0 /\ result = "threw"
  /\ Log(ev).blockNumber > lastProcessedBlock


\* The historical sweep is executing.
InSweepLoop == proc = "running" /\ phase \in {"histBatch", "histLogs"}

Rec == store[Log(ev).txHash]

\* C31: a failed L2 submission.  A submission that L2 did not take ends in the
\* error handling of performDeposit; there and in the catch of
\* processTopUpEvent a record that is not completed is written as failed
\* whenever the store takes the update, and the call ends by throwing to its
\* caller.  When the event is delivered again and the record is read as
\* failed, checkDeposit is asked first; on null retryCount is incremented, a
\* fresh nonce is fetched and saved, the deposit is resubmitted once, and when
\* L2 accepts it and the store takes the update the record is completed.
C31_FailedThenRetried ==
  /\ [][pc = "pdDeposit" /\ CallStep /\ l2log' = l2log => pc' \in {"pdCatch", "pdMarkFailed"}]_vars
  /\ [][(pc \in {"pdMarkFailed", "pdCatch", "markFailed"} /\ CallStep /\ faults' = faults
           /\ Rec.state # "completed") =>
          store'[Log(ev).txHash] = [Rec EXCEPT !.state = "failed"]]_vars
  /\ [][pc = "pdCatch" /\ CallStep /\ Rec.state # "completed" =>
          IF branch = "retry" THEN pc' = "none" /\ result' = "threw" ELSE pc' = "markFailed"]_vars
  /\ [][pc = "markFailed" /\ CallStep => pc' = "none" /\ result' = "threw"]_vars
  /\ [](pc = "none" /\ result = "threw" /\ DepositCalls = 1 /\ faults = 1 => Rec.state = "failed")
  /\ [][pc = "begin" /\ CallStep /\ Rec.state = "failed" /\ pc' # "none" => pc' = "checkDeposit"]_vars
  /\ [][pc = "checkDeposit" /\ CallStep /\ faults' = faults /\ ~checkDeposit(l2log, tx.nonce, Sig(ev)) =>
          pc' = "getNonce" /\ tx'.retryCount = Rec.retryCount + 1]_vars
  /\ [][pc = "pdMarkCompleted" /\ branch = "retry" /\ CallStep /\ faults' = faults =>
          /\ result' = "ok"
          /\ trace' = <<"checkDeposit", "getNonce", "save", "deposit", "updateOne">>
          /\ store'[Log(ev).txHash].state = "completed"
          /\ store'[Log(ev).txHash].nonce = Len(l2log) - 1
          /\ l2log[Len(l2log)] = ev]_vars

\* The only failure was one refused deposit: the record was failed, the same
\* event, the only one of its txHash, was delivered again, and the
\* resubmission has completed the record.
C31_Witness ==
  /\ pc = "none" /\ ev # 0 /\ result = "ok" /\ faults = 1
  /\ trace = <<"checkDeposit", "getNonce", "save", "deposit", "updateOne">>
  /\ submitted[Log(ev).txHash] = 2 /\ Credits(Log(ev).txHash) = 1
  /\ Rec.state = "completed" /\ Rec.retryCount = 1
  /\ \A i \in DOMAIN chain : Log(chain[i]).txHash = Log(ev).txHash => chain[i] = ev


\* C32: a failed nonce fetch changes nothing.  When getNonce does not yield a
\* nonce, for a new, pending, in-progress or failed record, the store and L2
\* are as they were before the fetch and no deposit is submitted; when it
\* throws, the call ends by throwing, with no deposit call made.  A new record
\* stays pending without nonce, and a record read as in-progress or failed
\* keeps its state, nonce and retryCount although retryCount was incremented
\* in memory.
C32_NonceFetchFails ==
  /\ [][pc = "getNonce" /\ faults' = faults + 1 =>
          /\ store' = store /\ l2log' = l2log /\ submitted' = submitted
          /\ proc' = "running" => pc' = "none" /\ result' = "threw"]_vars
  /\ [](pc = "getNonce" =>
          /\ DepositCalls = 0
          /\ branch \in {"new", "pending", "retry"}
          /\ branch \in {"new", "pending"} => Rec.state = "pending" /\ tx.retryCount = Rec.retryCount
          /\ branch = "retry" => tx.nonce = Rec.nonce /\ tx.retryCount = Rec.retryCount + 1)
  /\ [](pc = "none" /\ result = "threw" /\ trace = <<"save", "getNonce">> =>
          Rec.state = "pending" /\ Rec.nonce = NoNonce /\ Rec.retryCount = 0)
  /\ [](pc = "none" /\ result = "threw" /\ trace = <<"checkDeposit", "getNonce">> =>
          Rec.state \in {"in-progress", "failed"} /\ Rec.nonce # NoNonce)

\* The nonce fetch has thrown for a record read as failed: the record still
\* holds the nonce of its one submission and retryCount 0.
C32_Witness ==
  /\ pc = "none" /\ ev # 0 /\ result = "threw"
  /\ trace = <<"checkDeposit", "getNonce">>
  /\ Rec.state = "failed" /\ Rec.nonce = 0 /\ Rec.retryCount = 0
  /\ submitted[Log(ev).txHash] = 1 /\ l2log = <<>>


\* The steps of serve() in the order of the code; the poll phases follow one
\* another round after round.
ServeOrder ==
  { <<"start", "createPlayer">>, <<"start", "halted">>,
    <<"createPlayer", "histHead">>,
    <<"histHead", "histBatch">>, <<"histHead", "pollInit">>,
    <<"histBatch", "histLogs">>, <<"histLogs", "histBatch">>, <<"histBatch", "pollInit">>,
    <<"pollInit", "timer">>, <<"pollInit", "halted">>,
    <<"timer", "pollHead">>, <<"pollHead", "pollBatch">>, <<"pollHead", "timer">>,
    <<"pollBatch", "pollLogs">>, <<"pollBatch", "pollHead">>, <<"pollBatch", "timer">>,
    <<"pollLogs", "pollHead">>, <<"pollLogs", "timer">> }

\* The historical sweep of this run has returned.
SweepReturned == phase \in {"pollInit", "timer", "pollHead", "pollBatch", "pollLogs", "halted"}

\* C33: serve() runs its steps in a fixed order.  The store connection comes
\* first; then createPlayer sends the command of nonce 0, opcode CREATE_PLAYER
\* and no parameters, and whether the command is sent or throws the sweep is
\* entered next; the sweep is entered once per run and never again after it
\* has returned; the poll is set up after it.  A polling round runs, and an
\* event is handed over by the poll, only after the sweep has returned, and
\* while the sweep has not returned every event handed over is one of the
\* sweep.
C33_ServeOrder ==
  /\ [][proc = "running" /\ proc' = "running" /\ phase' # phase =>
          <<phase, phase'>> \in ServeOrder]_vars
  /\ [][proc = "running" /\ phase = "createPlayer" /\ proc' = "running" /\ phase' # phase =>
          /\ phase' = "histHead"
          /\ player'.nonce = 0 /\ player'.command = CREATE_PLAYER /\ player'.params = <<>>
          /\ player'.outcome \in {"sent", "threw"}]_vars
  /\ [][player' # player => phase = "createPlayer"]_vars
  /\ [][proc = "running" /\ proc' = "running" /\ SweepReturned => SweepReturned']_vars
  /\ [](InRound \/ isProcessing => SweepReturned)
  /\ [](pc # "none" => phase \in {"histLogs", "pollLogs"})
  /\ [](proc = "running" /\ phase \in {"start", "createPlayer", "histHead"} =>
          pc = "none" /\ ev = 0)

\* createPlayer threw, the sweep ran over one batch and handed its log over,
\* and the first polling round is now handing over a later log.
C33_Witness ==
  /\ proc = "running" /\ phase = "pollLogs" /\ pc = "begin"
  /\ player.outcome = "threw" /\ faults = 1
  /\ \E id \in handed : Log(id).blockNumber <= latestBlock
  /\ latestBlock < Log(ev).blockNumber


\* The process has ended itself or serve() was rejected, or a record has used
\* up the retries the model follows.
PollingStopped ==
  \/ proc # "running"
  \/ phase = "halted"
  \/ \E h \in TxHashes : store[h].retryCount >= MaxRetry

\* poll() is entered for a new round.
RoundStarted == proc = "running" /\ phase = "pollHead" /\ retries = PollRetries

\* C34: polling never stops by itself.  A round that ends, because it
\* succeeded, found no new block or used up its 3 attempts, leaves the timer
\* armed and isProcessing clear; every round that runs ends, and after every
\* round the next one is started, unless the process exits.
C34_PollingGoesOn ==
  /\ [][proc = "running" /\ InRound /\ proc' = "running" /\ ~InRound' =>
          phase' = "timer" /\ ~isProcessing']_vars
  /\ (proc = "running" /\ InRound) ~> (phase = "timer" \/ PollingStopped)
  /\ (proc = "running" /\ phase = "timer") ~> (RoundStarted \/ PollingStopped)

\* A round has used up its 3 attempts without moving the cursor, and the next
\* round has been started for the same range.
C34_Witness ==
  /\ RoundStarted /\ faults = MaxFaults
  /\ batches # <<>> /\ batches[1][1] = lastProcessedBlock + 1
  /\ ~PollingStopped


\* C35: a pending record has had no deposit submitted.  Whenever admin.deposit
\* has been called for a txHash, its record is stored as in-progress, failed
\* or completed; and admin.deposit is only ever called for a record that is
\* stored as in-progress or failed, with the nonce that is submitted.
C35_PendingNeverSubmitted ==
  /\ \A h \in TxHashes :
       submitted[h] > 0 => store[h].state \in {"in-progress", "failed", "completed"}
  /\ pc = "pdDeposit" => Rec.state \in {"in-progress", "failed"} /\ Rec.nonce = tx.nonce

\* The first deposit for a txHash has just been submitted from the new-record
\* branch: its record went from pending to in-progress before the call.
C35_Witness ==
  /\ pc \in {"pdMarkCompleted", "pdCatch", "pdMarkFailed"} /\ branch = "new"
  /\ submitted[Log(ev).txHash] = 1
  /\ Rec.state = "in-progress" /\ Rec.retryCount = 0


\* C36: the deposits submitted for a txHash number at most the stored
\* retryCount plus one.  The first submission of the new and pending branches
\* is made when none was made before, and every other submission follows a
\* stored increment of retryCount.
C36_SubmissionsBounded ==
  /\ \A h \in TxHashes : submitted[h] <= store[h].retryCount + 1
  /\ pc = "pdDeposit" /\ branch \in {"new", "pending"} =>
       submitted[Log(ev).txHash] = 0 /\ Rec.retryCount = 0

\* The bound is met: three deposits were submitted for a txHash whose record
\* holds retryCount 2, and the third has completed it.
C36_Witness ==
  \E h \in TxHashes :
    submitted[h] = 3 /\ store[h].retryCount = 2 /\ store[h].state = "completed"


\* C37: the stored nonce is the nonce of the latest submission.  Between two
\* calls of processTopUpEvent, for every txHash that has had a deposit
\* submitted, the record holds the nonce of the most recent submission; and
\* the checkDeposit of a redelivery asks L2 about that submission.
C37_NonceOfLatestSubmission ==
  /\ pc = "none" => \A h \in TxHashes : submitted[h] > 0 => store[h].nonce = lastNonce[h]
  /\ pc = "checkDeposit" /\ submitted[Log(ev).txHash] > 0 => tx.nonce = lastNonce[Log(ev).txHash]


\* The positions inside the try block of performDeposit (lines 156-184).
PdInside == {"pdDeposit", "pdMarkCompleted", "pdMarkFailed", "pdCatch"}

\* C38: within one process the calls of processTopUpEvent do not overlap.  A
\* call is started only when none is running, by the sweep or by a polling
\* round and never by both; performDeposit is never entered with
\* isProcessingDeposit set, so the process never ends at its reentrancy guard;
\* and the flag is clear whenever no performDeposit call is executing, after
\* a return as after a thrown error.
C38_NoOverlap ==
  /\ [][pc' = "begin" /\ pc # "begin" =>
          /\ pc = "none" /\ phase \in {"histLogs", "pollLogs"} /\ phase' = phase
          /\ ~isProcessingDeposit]_vars
  /\ [](pc = "pdEnter" => ~isProcessingDeposit)
  /\ [][pc = "pdEnter" /\ proc' = "exit1" => Rec.state = "completed"]_vars
  /\ [](pc \notin PdInside => ~isProcessingDeposit)
  /\ [](proc = "running" /\ pc \in PdInside => isProcessingDeposit)
  /\ [](phase = "histLogs" => ~isProcessing)

\* performDeposit has thrown and processTopUpEvent is in its catch: the flag is
\* clear again.
C38_Witness ==
  /\ proc = "running" /\ pc = "markFailed" /\ branch = "new"
  /\ DepositCalls = 1 /\ ~isProcessingDeposit
  /\ Rec.state = "failed"


\* C39: performDeposit re-reads the record before it submits.  When it is
\* entered with the reentrancy flag clear for a record the store holds as
\* completed and the read succeeds, the process ends with exit code 1, and
\* the store, L2 and the count of submissions stay as they are; admin.deposit
\* is reached only when the record read at the start of the call was not
\* completed.
C39_CompletedNotResubmitted ==
  /\ [][(/\ proc = "running" /\ pc = "pdEnter" /\ ~isProcessingDeposit
         /\ Rec.state = "completed"
         /\ other' = other /\ faults' = faults /\ head' = head) =>
          /\ proc' = "exit1"
          /\ l2log' = l2log /\ submitted' = submitted /\ store' = store
          /\ lastNonce' = lastNonce]_vars
  /\ [][pc = "pdEnter" /\ pc' = "pdDeposit" /\ other' = other => Rec.state # "completed"]_vars

\* performDeposit found the record completed by the other process and ended
\* this one before any deposit was submitted by the call.
C39_Witness ==
  /\ proc = "exit1" /\ ev # 0 /\ DepositCalls = 0
  /\ trace # <<>> /\ trace[Len(trace)] = "save"
  /\ Rec.state = "completed"
  /\ submitted[Log(ev).txHash] = 1


\* The bitwise OR of two numbers, digit by digit and bit by bit.
BitOr(a, b) ==
  LET n == IF Len(a) < Len(b) THEN Len(b) ELSE Len(a)
      d(q, i) == IF i <= Len(q) THEN q[i] ELSE 0
      Bit(x, i) == (x \div (2 ^ i)) % 2
      OrBit(x, y, i) == IF Bit(x, i) = 1 \/ Bit(y, i) = 1 THEN 2 ^ i ELSE 0
      OrDigit(x, y) == OrBit(x, y, 0) + OrBit(x, y, 1) + OrBit(x, y, 2) + OrBit(x, y, 3)
  IN Normalize([i \in 1..n |-> OrDigit(d(a, i), d(b, i))])

\* The arguments the claim speaks of: nonce < 2^48, opcode < 256, fewer than
\* 255 parameters, each a 64-bit word.
CommandInRange(c) ==
  /\ Len(c.nonce) <= 12
  /\ Len(c.command) <= 2
  /\ Len(c.params) < 255
  /\ \A i \in 1..Len(c.params) : Len(c.params[i]) <= 16

\* C40: for a nonce below 2^48, an opcode below 256 and fewer than 255
\* parameters (64-bit words), createCommand returns an array of 64-bit words
\* whose first word is (nonce << 16) | ((len + 1) << 8) | opcode, the sums of
\* the code being equal to the bitwise OR, followed by the parameters unchanged
\* and in order; createPlayer sends the command of nonce 0, opcode
\* CREATE_PLAYER = 1 and no parameters, the single word 0x101.
C40_CommandWord ==
  /\ (call.state = "returned" /\ CommandInRange(call)) =>
       /\ Len(call.words) = Len(call.params) + 1
       /\ \A i \in 1..Len(call.words) : Len(call.words[i]) <= 16
       /\ call.words[1] =
            BitOr(BitOr(shln(call.nonce, 16), shln(FromNat(Len(call.params) + 1), 8)),
                  call.command)
       /\ \A i \in 1..Len(call.params) : call.words[i + 1] = call.params[i]
  /\ player.outcome # "none" =>
       /\ CREATE_PLAYER = 1
       /\ player.nonce = 0 /\ player.command = CREATE_PLAYER /\ player.params = <<>>
       /\ player.words = << <<1, 0, 1>> >>

\* The largest arguments in range give the word 2^64 - 1 in front of 254
\* parameters, and createPlayer has sent its command.
C40_Witness ==
  /\ call.state = "returned"
  /\ call.nonce = Rep(15, 12) /\ call.command = Rep(15, 2) /\ Len(call.params) = 254
  /\ call.words[1] = Rep(15, 16)
  /\ call.words[255] = ParamAt(254)
  /\ player.outcome = "sent"

============================================================================
